---------------------------- MODULE Spec2Model ----------------------------
(***************************************************************************)
(* hasura-mcp-server: the introspection helpers (src/introspection.ts) and *)
(* the MCP server's tool handlers and schema cache (src/server.ts).        *)
(*                                                                         *)
(* Strings are sequences of one-character strings, so that prefixes,       *)
(* suffixes, regular expressions and concatenation are computed character  *)
(* by character.  A nullable value is a sequence of length 0 (null or      *)
(* undefined) or 1 (the value).                                            *)
(***************************************************************************)
EXTENDS Integers, Sequences, FiniteSets, TLC

VARIABLES
    schemaCache,   \* server.ts: let schemaCache: IntrospectionSchema | null
    inv,           \* the invocations the host has dispatched, one per slot
    cacheWrites,   \* history: how many times schemaCache was assigned
    fetchFailures, \* history: how many introspection requests have failed
    calls,         \* history: how many invocations were dispatched
    arg,           \* helper harness: the input of the helper under check
    ret            \* helper harness: what the helper returned

vars == <<schemaCache, inv, cacheWrites, fetchFailures, calls, arg, ret>>

(***************************************************************************)
(* Bounds of the model.                                                    *)
(***************************************************************************)
MaxDepth == 3      \* wrapper nodes of a TypeRef chain
MaxFrags == 4      \* fragments a query text is built of
MaxCalls == 3      \* invocations dispatched in one behaviour
NumProcs == 2      \* invocation slots of the host

(***************************************************************************)
(* Nullable values.                                                        *)
(***************************************************************************)
Null == <<>>
Some(x) == <<x>>

(***************************************************************************)
(* Characters and strings.                                                 *)
(***************************************************************************)
AlphaLower ==
  <<"a","b","c","d","e","f","g","h","i","j","k","l","m",
    "n","o","p","q","r","s","t","u","v","w","x","y","z">>
AlphaUpper ==
  <<"A","B","C","D","E","F","G","H","I","J","K","L","M",
    "N","O","P","Q","R","S","T","U","V","W","X","Y","Z">>
Digits == <<"0","1","2","3","4","5","6","7","8","9">>

\* The characters of the model in ascending UTF-16 code unit order.
Ascii ==
  <<"\n", " ", "!", "\"", "#", "$", "(", ")">> \o Digits \o <<":">>
    \o AlphaUpper \o <<"[", "]", "_">> \o AlphaLower \o <<"{", "}">>

Range(s) == {s[i] : i \in 1..Len(s)}

CharCode(c) == CHOOSE i \in 1..Len(Ascii) : Ascii[i] = c

\* String.prototype.toLowerCase, one character
LowerChar(c) ==
  IF \E i \in 1..26 : AlphaUpper[i] = c
    THEN AlphaLower[CHOOSE i \in 1..26 : AlphaUpper[i] = c]
    ELSE c

toLowerCase(s) == [i \in 1..Len(s) |-> LowerChar(s[i])]

\* the regular expression classes \s and \w
IsSpace(c) == c \in {" ", "\n", "\t", "\r"}
IsWordChar(c) == c \in Range(AlphaLower) \cup Range(AlphaUpper) \cup Range(Digits) \cup {"_"}

\* String.prototype.startsWith / endsWith
startsWith(s, prefix) ==
  /\ Len(prefix) <= Len(s)
  /\ SubSeq(s, 1, Len(prefix)) = prefix

endsWith(s, suffix) ==
  /\ Len(suffix) <= Len(s)
  /\ SubSeq(s, Len(s) - Len(suffix) + 1, Len(s)) = suffix

\* the default comparison of Array.prototype.sort: a < b by code units
RECURSIVE StrLess(_, _)
StrLess(a, b) ==
  IF a = <<>> THEN b # <<>>
  ELSE IF b = <<>> THEN FALSE
  ELSE IF a[1] = b[1] THEN StrLess(Tail(a), Tail(b))
  ELSE CharCode(a[1]) < CharCode(b[1])

(***************************************************************************)
(* src/introspection.ts                                                    *)
(***************************************************************************)
IGNORE_TYPE_SUFFIXES ==
  << <<"_","a","g","g","r","e","g","a","t","e">>,
     <<"_","a","g","g","r","e","g","a","t","e","_","f","i","e","l","d","s">>,
     <<"_","a","g","g","r","e","g","a","t","e","_","o","r","d","e","r","_","b","y">>,
     <<"_","a","v","g","_","f","i","e","l","d","s">>,
     <<"_","b","o","o","l","_","e","x","p">>,
     <<"_","c","o","m","p","a","r","i","s","o","n","_","e","x","p">>,
     <<"_","c","o","n","s","t","r","a","i","n","t">>,
     <<"_","i","n","c","_","i","n","p","u","t">>,
     <<"_","m","a","x","_","f","i","e","l","d","s">>,
     <<"_","m","i","n","_","f","i","e","l","d","s">>,
     <<"_","m","u","t","a","t","i","o","n","_","r","e","s","p","o","n","s","e">>,
     <<"_","o","r","d","e","r","_","b","y">>,
     <<"_","p","k","_","c","o","l","u","m","n","s","_","i","n","p","u","t">>,
     <<"_","s","e","l","e","c","t","_","c","o","l","u","m","n">>,
     <<"_","s","e","t","_","i","n","p","u","t">>,
     <<"_","s","t","d","d","e","v","_","f","i","e","l","d","s">>,
     <<"_","s","t","d","d","e","v","_","p","o","p","_","f","i","e","l","d","s">>,
     <<"_","s","t","d","d","e","v","_","s","a","m","p","_","f","i","e","l","d","s">>,
     <<"_","s","u","m","_","f","i","e","l","d","s">>,
     <<"_","v","a","r","_","p","o","p","_","f","i","e","l","d","s">>,
     <<"_","v","a","r","_","s","a","m","p","_","f","i","e","l","d","s">>,
     <<"_","v","a","r","i","a","n","c","e","_","f","i","e","l","d","s">>,
     <<"_","s","t","r","e","a","m","_","c","u","r","s","o","r","_","i","n","p","u","t">>,
     <<"_","s","t","r","e","a","m","_","c","u","r","s","o","r","_","v","a","l","u","e","_","i","n","p","u","t">> >>

QueryRoot == <<"q","u","e","r","y","_","r","o","o","t">>
MutationRoot == <<"m","u","t","a","t","i","o","n","_","r","o","o","t">>
SubscriptionRoot == <<"s","u","b","s","c","r","i","p","t","i","o","n","_","r","o","o","t">>

ROOT_TYPE_NAMES == {QueryRoot, MutationRoot, SubscriptionRoot}

\* A kind is a string of the introspection document; KindChars spells it.
KindChars(kind) ==
  CASE kind = "NON_NULL" -> <<"N","O","N","_","N","U","L","L">>
    [] kind = "LIST" -> <<"L","I","S","T">>
    [] kind = "SCALAR" -> <<"S","C","A","L","A","R">>
    [] kind = "OBJECT" -> <<"O","B","J","E","C","T">>
    [] kind = "ENUM" -> <<"E","N","U","M">>
    [] kind = "INPUT_OBJECT" -> <<"I","N","P","U","T","_","O","B","J","E","C","T">>
    [] kind = "INTERFACE" -> <<"I","N","T","E","R","F","A","C","E">>
    [] kind = "UNION" -> <<"U","N","I","O","N">>

\* A TypeRef is [kind, name: nullable string, ofType: nullable TypeRef].
TypeRef(kind, name, ofType) == [kind |-> kind, name |-> name, ofType |-> ofType]

\* the while loop of unwrapType: one iteration per node that has an ofType
RECURSIVE unwrapLoop(_, _, _)
unwrapLoop(current, isList, isNonNull) ==
  IF current.ofType # Null
    THEN unwrapLoop(current.ofType[1],
                    isList \/ current.kind = "LIST",
                    isNonNull \/ current.kind = "NON_NULL")
    ELSE [name |-> current.name, kind |-> current.kind,
          isList |-> isList, isNonNull |-> isNonNull]

\* a slip: only the outermost node is inspected
unwrapTypeOutermostOnly(type) ==
  LET inner == unwrapLoop(type, FALSE, FALSE)
  IN  [inner EXCEPT !.isList = (type.kind = "LIST" /\ type.ofType # Null),
                    !.isNonNull = (type.kind = "NON_NULL" /\ type.ofType # Null)]

unwrapType(type) == unwrapLoop(type, FALSE, FALSE)

RECURSIVE toTypeStringRec(_)
toTypeStringRec(type) ==
  IF type.kind = "NON_NULL" /\ type.ofType # Null
    THEN toTypeStringRec(type.ofType[1]) \o <<"!">>
  ELSE IF type.kind = "LIST" /\ type.ofType # Null
    THEN <<"[">> \o toTypeStringRec(type.ofType[1]) \o <<"]">>
  ELSE IF type.name # Null THEN type.name[1] ELSE KindChars(type.kind)

\* a slip: the '!' is put in front of the inner rendering
RECURSIVE toTypeStringBangFirst(_)
toTypeStringBangFirst(type) ==
  IF type.kind = "NON_NULL" /\ type.ofType # Null
    THEN <<"!">> \o toTypeStringBangFirst(type.ofType[1])
  ELSE IF type.kind = "LIST" /\ type.ofType # Null
    THEN <<"[">> \o toTypeStringBangFirst(type.ofType[1]) \o <<"]">>
  ELSE IF type.name # Null THEN type.name[1] ELSE KindChars(type.kind)

toTypeString(type) == toTypeStringRec(type)

\* Array.prototype.find over schema.types: the first type with that name
FindIndex(types, name) ==
  IF \E i \in 1..Len(types) : types[i].name = name
    THEN CHOOSE i \in 1..Len(types) :
           /\ types[i].name = name
           /\ \A j \in 1..(i - 1) : types[j].name # name
    ELSE 0

getTypeByName(schema, name) ==
  LET i == FindIndex(schema.types, name)
  IN  IF i = 0 THEN Null ELSE Some(schema.types[i])

\* a slip: the kind test accepts SCALAR only
isScalarOrEnumScalarOnly(typeName, schema) ==
  IF typeName = Null \/ typeName = Some(<<>>) THEN FALSE
  ELSE LET found == getTypeByName(schema, typeName[1])
       IN  IF found = Null THEN FALSE
           ELSE found[1].kind = "SCALAR"

isScalarOrEnum(typeName, schema) ==
  IF typeName = Null \/ typeName = Some(<<>>) THEN FALSE
  ELSE LET found == getTypeByName(schema, typeName[1])
       IN  IF found = Null THEN FALSE
           ELSE found[1].kind = "SCALAR" \/ found[1].kind = "ENUM"

\* a slip: the fields test is left out
isLikelyTableTypeNoFields(type) ==
  IF type.kind # "OBJECT" THEN FALSE
  ELSE IF type.name = <<>> \/ startsWith(type.name, <<"_","_">>) THEN FALSE
  ELSE IF type.name \in ROOT_TYPE_NAMES THEN FALSE
  ELSE IF \E i \in 1..Len(IGNORE_TYPE_SUFFIXES) :
            endsWith(type.name, IGNORE_TYPE_SUFFIXES[i]) THEN FALSE
  ELSE TRUE

isLikelyTableType(type) ==
  IF type.kind # "OBJECT" THEN FALSE
  ELSE IF type.name = <<>> \/ startsWith(type.name, <<"_","_">>) THEN FALSE
  ELSE IF type.name \in ROOT_TYPE_NAMES THEN FALSE
  ELSE IF \E i \in 1..Len(IGNORE_TYPE_SUFFIXES) :
            endsWith(type.name, IGNORE_TYPE_SUFFIXES[i]) THEN FALSE
  ELSE IF type.fields = Null \/ Len(type.fields[1]) = 0 THEN FALSE
  ELSE TRUE

\* a slip: the default is returned even when the schema declares a name
getRootTypeNameDefaultOnly(schema, operation) ==
  IF operation = "query" THEN QueryRoot
  ELSE IF operation = "mutation"
    THEN (IF schema.mutationType # Null THEN schema.mutationType[1].name ELSE MutationRoot)
  ELSE (IF schema.subscriptionType # Null THEN schema.subscriptionType[1].name
        ELSE SubscriptionRoot)

getRootTypeName(schema, operation) ==
  IF operation = "query"
    THEN (IF schema.queryType # Null THEN schema.queryType[1].name ELSE QueryRoot)
  ELSE IF operation = "mutation"
    THEN (IF schema.mutationType # Null THEN schema.mutationType[1].name ELSE MutationRoot)
  ELSE (IF schema.subscriptionType # Null THEN schema.subscriptionType[1].name
        ELSE SubscriptionRoot)

(***************************************************************************)
(* The server state before any helper or tool has run.                     *)
(***************************************************************************)
Procs == 1..NumProcs

IdleInv == [pc |-> "idle"]

ServerInit ==
  /\ schemaCache = Null
  /\ inv = [p \in Procs |-> IdleInv]
  /\ cacheWrites = 0
  /\ fetchFailures = 0
  /\ calls = 0

serverVars == <<schemaCache, inv, cacheWrites, fetchFailures, calls>>

NoRet == [fn |-> "none"]

(***************************************************************************)
(* Inputs of the introspection helpers.                                    *)
(***************************************************************************)
Book == <<"b","o","o","k">>
Uuid == <<"u","u","i","d">>
Status == <<"s","t","a","t","u","s">>
Missing == <<"m","i","s","s","i","n","g">>
UuidUpper == <<"U","U","I","D">>
CustomQuery == <<"c","u","s","t","o","m","_","q","u","e","r","y">>
CustomMutation == <<"c","u","s","t","o","m","_","m","u","t","a","t","i","o","n">>

WrapperKinds == {"NON_NULL", "LIST"}
TerminalKinds == {"SCALAR", "OBJECT", "ENUM"}
TerminalNames == {Null, Some(Book), Some(Uuid)}

Terminals == {TypeRef(k, n, Null) : k \in TerminalKinds, n \in TerminalNames}

RECURSIVE ChainsOfDepth(_)
ChainsOfDepth(d) ==
  IF d = 0 THEN Terminals
  ELSE {TypeRef(w, Null, Some(c)) : w \in WrapperKinds, c \in ChainsOfDepth(d - 1)}

Chains == UNION {ChainsOfDepth(d) : d \in 0..MaxDepth}

\* chains the data model rules out: a wrapper kind with nothing inside, and
\* a named node that wraps another
IllFormedChains ==
  { TypeRef("LIST", Null, Null),
    TypeRef("NON_NULL", Null, Null),
    TypeRef("OBJECT", Some(Book), Some(TypeRef("SCALAR", Some(Uuid), Null))) }

IdField ==
  [name |-> <<"i","d">>, description |-> Null,
   type |-> TypeRef("SCALAR", Some(Uuid), Null), args |-> <<>>]

FullType(kind, name, fields, inputFields, enumValues) ==
  [kind |-> kind, name |-> name, description |-> Null, fields |-> fields,
   inputFields |-> inputFields, enumValues |-> enumValues]

NamedType(kind, name, fields) == FullType(kind, name, fields, Null, Null)

TableNameInputs ==
  {Book \o IGNORE_TYPE_SUFFIXES[i] : i \in 1..Len(IGNORE_TYPE_SUFFIXES)}
    \cup ROOT_TYPE_NAMES
    \cup { Book, <<>>, <<"_","_","S","c","h","e","m","a">>, <<"_","b","o","o","k">>,
           <<"_","a","g","g","r","e","g","a","t","e">>,
           <<"b","o","o","k","_","A","G","G","R","E","G","A","T","E">>,
           <<"b","o","o","k","_","a","g","g","r","e","g","a","t","e","_","x">>,
           <<"m","y","_","q","u","e","r","y","_","r","o","o","t">>,
           <<"Q","u","e","r","y","_","r","o","o","t">> }

NamedTypeInputs ==
  { NamedType(k, n, f) :
      k \in {"OBJECT", "SCALAR", "INPUT_OBJECT", "INTERFACE"},
      n \in TableNameInputs,
      f \in {Null, Some(<<>>), Some(<<IdField>>)} }

RootRefs(default, custom) ==
  {Null, Some([name |-> default]), Some([name |-> custom]), Some([name |-> <<>>])}

Schema(queryType, mutationType, subscriptionType, types) ==
  [queryType |-> queryType, mutationType |-> mutationType,
   subscriptionType |-> subscriptionType, types |-> types]

RootSchemaInputs ==
  { Schema(q, m, s, <<>>) :
      q \in RootRefs(QueryRoot, CustomQuery),
      m \in RootRefs(MutationRoot, CustomMutation),
      s \in RootRefs(SubscriptionRoot, Book) }

Operations == {"query", "mutation", "subscription"}

MaxTypes == 2      \* types of a schema handed to isScalarOrEnum

ScalarTypeInputs ==
  { NamedType(k, n, IF k = "OBJECT" THEN Some(<<>>) ELSE Null) :
      k \in {"SCALAR", "ENUM", "OBJECT", "INPUT_OBJECT"},
      n \in {Uuid, Status, Book} }

\* type lists of at most MaxTypes types, unique by name
RECURSIVE TypeLists(_)
TypeLists(n) ==
  IF n = 0 THEN {<<>>}
  ELSE LET shorter == TypeLists(n - 1)
       IN  shorter \cup
           { Append(l, t) : l \in {x \in shorter : Len(x) = n - 1},
                            t \in ScalarTypeInputs } 

UniqueNames(types) ==
  \A i, j \in 1..Len(types) : types[i].name = types[j].name => i = j

ScalarSchemaInputs ==
  { Schema(Some([name |-> QueryRoot]), Some([name |-> MutationRoot]), Null, l) :
      l \in {x \in TypeLists(MaxTypes) : UniqueNames(x)} }

TypeNameInputs ==
  {Null, Some(<<>>), Some(Uuid), Some(Status), Some(Book), Some(Missing), Some(UuidUpper)}

HelperInputs ==
  {[sort |-> "TypeRef", type |-> t] : t \in Chains \cup IllFormedChains}
    \cup {[sort |-> "NamedType", type |-> t] : t \in NamedTypeInputs}
    \cup {[sort |-> "Root", schema |-> s, operation |-> o] :
            s \in RootSchemaInputs, o \in Operations}
    \cup {[sort |-> "TypeName", typeName |-> n, schema |-> s] :
            n \in TypeNameInputs, s \in ScalarSchemaInputs}

(***************************************************************************)
(* The helpers applied to an input.                                        *)
(***************************************************************************)
HelpersInit ==
  /\ ServerInit
  /\ arg \in HelperInputs
  /\ ret = NoRet

CallUnwrapType ==
  /\ arg.sort = "TypeRef"
  /\ ret' = [fn |-> "unwrapType", val |-> unwrapType(arg.type)]
  /\ UNCHANGED <<arg, serverVars>>

CallToTypeString ==
  /\ arg.sort = "TypeRef"
  /\ ret' = [fn |-> "toTypeString", val |-> toTypeString(arg.type)]
  /\ UNCHANGED <<arg, serverVars>>

CallIsLikelyTableType ==
  /\ arg.sort = "NamedType"
  /\ ret' = [fn |-> "isLikelyTableType", val |-> isLikelyTableType(arg.type)]
  /\ UNCHANGED <<arg, serverVars>>

CallGetRootTypeName ==
  /\ arg.sort = "Root"
  /\ ret' = [fn |-> "getRootTypeName",
             val |-> getRootTypeName(arg.schema, arg.operation)]
  /\ UNCHANGED <<arg, serverVars>>

CallIsScalarOrEnum ==
  /\ arg.sort = "TypeName"
  /\ ret' = [fn |-> "isScalarOrEnum",
             val |-> isScalarOrEnum(arg.typeName, arg.schema)]
  /\ UNCHANGED <<arg, serverVars>>

HelpersNext ==
  \/ CallUnwrapType
  \/ CallToTypeString
  \/ CallIsLikelyTableType
  \/ CallGetRootTypeName
  \/ CallIsScalarOrEnum

SpecHelpers == HelpersInit /\ [][HelpersNext]_vars

(***************************************************************************)
(* Properties of the introspection helpers (checked under SpecHelpers).    *)
(***************************************************************************)
\* a chain as the data model has it: wrappers that wrap, then one named node
RECURSIVE WellFormed(_)
WellFormed(t) ==
  IF t.kind \in WrapperKinds
    THEN t.ofType # Null /\ WellFormed(t.ofType[1])
    ELSE t.ofType = Null

\* an independent walk of the chain: its nodes, outermost first
RECURSIVE ChainNodes(_)
ChainNodes(t) ==
  IF t.ofType = Null THEN <<t>> ELSE <<t>> \o ChainNodes(t.ofType[1])

CountKind(t, kind) ==
  Cardinality({i \in 1..Len(ChainNodes(t)) : ChainNodes(t)[i].kind = kind})

TerminalNode(t) == ChainNodes(t)[Len(ChainNodes(t))]

\* C3: for every well-formed TypeRef chain unwrapType returns the terminal
\* node's name and kind, isList = TRUE iff some node of the chain is a LIST
\* and isNonNull = TRUE iff some node is a NON_NULL, as an independent walk
\* counting the LIST and NON_NULL nodes finds them.
C3_UnwrapMatchesWalk ==
  (ret.fn = "unwrapType" /\ WellFormed(arg.type)) =>
    /\ ret.val.name = TerminalNode(arg.type).name
    /\ ret.val.kind = TerminalNode(arg.type).kind
    /\ ret.val.isList = (CountKind(arg.type, "LIST") > 0)
    /\ ret.val.isNonNull = (CountKind(arg.type, "NON_NULL") > 0)

\* the chain of the unit test, NON_NULL(LIST(NON_NULL(book))), unwrapped
C3_Witness ==
  /\ ret.fn = "unwrapType"
  /\ arg.type = TypeRef("NON_NULL", Null, Some(TypeRef("LIST", Null,
                  Some(TypeRef("NON_NULL", Null, Some(TypeRef("OBJECT", Some(Book), Null)))))))
  /\ ret.val = [name |-> Some(Book), kind |-> "OBJECT", isList |-> TRUE, isNonNull |-> TRUE]

\* the rendering built from the inside out: the terminal's label, then the
\* wrappers applied from the innermost to the outermost
RECURSIVE ApplyWrappers(_, _, _)
ApplyWrappers(text, nodes, i) ==
  IF i = 0 THEN text
  ELSE ApplyWrappers(IF nodes[i].kind = "NON_NULL" THEN Append(text, "!")
                     ELSE <<"[">> \o Append(text, "]"),
                     nodes, i - 1)

RenderInsideOut(t) ==
  LET nodes == ChainNodes(t)
      last == nodes[Len(nodes)]
      label == IF last.name # Null THEN last.name[1] ELSE KindChars(last.kind)
  IN  ApplyWrappers(label, nodes, Len(nodes) - 1)

BookListNonNull ==
  TypeRef("NON_NULL", Null, Some(TypeRef("LIST", Null,
    Some(TypeRef("OBJECT", Some(Book), Null)))))

\* C4: toTypeString renders a NON_NULL wrapper as its inner rendering
\* followed by '!', a LIST wrapper as its inner rendering in '[' ']', and
\* the terminal node as its name, or as its kind when it has no name;
\* NON_NULL(LIST(book)) renders as "[book]!".
C4_RenderMatches ==
  (ret.fn = "toTypeString" /\ WellFormed(arg.type)) =>
    /\ ret.val = RenderInsideOut(arg.type)
    /\ arg.type = BookListNonNull => ret.val = <<"[","b","o","o","k","]","!">>
    /\ (arg.type.ofType = Null /\ arg.type.name = Null) => ret.val = KindChars(arg.type.kind)

C4_Witness ==
  /\ ret.fn = "toTypeString"
  /\ arg.type = BookListNonNull
  /\ ret.val = <<"[","b","o","o","k","]","!">>

\* s ends with x, stated without endsWith
HasSuffix(s, x) == \E k \in 0..Len(s) : SubSeq(s, k + 1, Len(s)) = x

\* C5: isLikelyTableType is TRUE iff the kind is OBJECT, the name is
\* non-empty and does not start with "__", the name is none of the three
\* root names, the name ends (case-sensitively) with none of the 24
\* suffixes of the denylist, and fields is present with at least one field.
C5_TableTypeIff ==
  ret.fn = "isLikelyTableType" =>
    /\ Len(IGNORE_TYPE_SUFFIXES) = 24
    /\ ret.val =
         ( /\ arg.type.kind = "OBJECT"
           /\ arg.type.name # <<>>
           /\ ~(Len(arg.type.name) >= 2 /\ arg.type.name[1] = "_" /\ arg.type.name[2] = "_")
           /\ arg.type.name # <<"q","u","e","r","y","_","r","o","o","t">>
           /\ arg.type.name # <<"m","u","t","a","t","i","o","n","_","r","o","o","t">>
           /\ arg.type.name # <<"s","u","b","s","c","r","i","p","t","i","o","n","_","r","o","o","t">>
           /\ \A i \in 1..24 : ~HasSuffix(arg.type.name, IGNORE_TYPE_SUFFIXES[i])
           /\ arg.type.fields # Null
           /\ Len(arg.type.fields[1]) >= 1 )

\* the OBJECT type book with one field is a table
C5_Witness ==
  /\ ret.fn = "isLikelyTableType"
  /\ arg.type = NamedType("OBJECT", Book, Some(<<IdField>>))
  /\ ret.val = TRUE

\* C6: getRootTypeName returns the name the schema declares for the
\* operation when the reference is present, and the default query_root,
\* mutation_root or subscription_root otherwise.
C6_RootNameDeclaredFirst ==
  ret.fn = "getRootTypeName" =>
    LET ref == CASE arg.operation = "query" -> arg.schema.queryType
                 [] arg.operation = "mutation" -> arg.schema.mutationType
                 [] arg.operation = "subscription" -> arg.schema.subscriptionType
        default == CASE arg.operation = "query" -> <<"q","u","e","r","y","_","r","o","o","t">>
                     [] arg.operation = "mutation" ->
                          <<"m","u","t","a","t","i","o","n","_","r","o","o","t">>
                     [] arg.operation = "subscription" ->
                          <<"s","u","b","s","c","r","i","p","t","i","o","n","_","r","o","o","t">>
    IN  /\ ref # Null => ret.val = ref[1].name
        /\ ref = Null => ret.val = default

\* the schema of the unit test: a declared custom_query, no subscription type
C6_Witness ==
  /\ ret.fn = "getRootTypeName"
  /\ arg.operation = "query"
  /\ arg.schema.queryType = Some([name |-> CustomQuery])
  /\ arg.schema.subscriptionType = Null
  /\ ret.val = CustomQuery

\* C7: isScalarOrEnum is TRUE iff the name is present and non-empty, a type
\* of exactly that name is in schema.types, and that type is a SCALAR or an
\* ENUM.
C7_ScalarOrEnumIff ==
  ret.fn = "isScalarOrEnum" =>
    ret.val =
      ( /\ arg.typeName # Null
        /\ arg.typeName[1] # <<>>
        /\ \E i \in 1..Len(arg.schema.types) :
             /\ arg.schema.types[i].name = arg.typeName[1]
             /\ arg.schema.types[i].kind \in {"SCALAR", "ENUM"} )

\* an ENUM found behind another type of the schema
C7_Witness ==
  /\ ret.fn = "isScalarOrEnum"
  /\ arg.typeName = Some(Status)
  /\ Len(arg.schema.types) = 2
  /\ arg.schema.types[2] = NamedType("ENUM", Status, Null)
  /\ ret.val = TRUE

(***************************************************************************)
(* src/server.ts: values that cross the tool boundary.                     *)
(*                                                                         *)
(* A request is what client.request or fetch was handed.  A result is what *)
(* a handler returned: a text content, the resource's contents, or, when   *)
(* an exception left the handler, the exception.  A text is a JSON         *)
(* document of a value or a template string `${label}${rest}`.             *)
(***************************************************************************)
GraphqlRequest(query, variables) ==
  [to |-> "graphql", query |-> query, variables |-> variables]

FetchRequest(url) == [to |-> "fetch", url |-> url]

Json(value) == [form |-> "json", value |-> value]
Plain(label, rest) == [form |-> "plain", label |-> label, rest |-> rest]

TextResult(text) == [kind |-> "text", text |-> text]
ContentsResult(text) == [kind |-> "contents", text |-> text]
Thrown(error) == [kind |-> "throw", error |-> error]

\* what a failed request throws: an Error with a message, or another value
Errors ==
  { [isError |-> TRUE, message |-> <<"d","o","w","n">>,
     string |-> <<"E","r","r","o","r",":"," ","d","o","w","n">>],
    [isError |-> FALSE, message |-> <<>>, string |-> <<"r","e","s","e","t">>] }

\* what the endpoint answers to a data request
Responses == {"rows"}

\* a slip: String(error) also for an Error
formatErrorString(error) == error.string

formatError(error) == IF error.isError THEN error.message ELSE error.string

\* the record of a dispatched invocation
Invocation(pc, tool, args, sent, data, result, thrown) ==
  [pc |-> pc, tool |-> tool, args |-> args, sent |-> sent, data |-> data,
   result |-> result, thrown |-> thrown]

InFlight(p) == inv[p].pc \notin {"idle", "done"}

\* a handler returns: the invocation is complete
Return(rec, result) == [rec EXCEPT !.pc = "done", !.result = Some(result)]

\* a handler awaits a request it has just sent
Await(rec, pc, request) == [rec EXCEPT !.pc = pc, !.sent = Append(@, request)]

\* a handler's catch clause: the tool's failure label and the formatted error
Catch(rec, label, error) ==
  [rec EXCEPT !.pc = "done",
              !.result = Some(TextResult(Plain(label, formatError(error)))),
              !.thrown = Some(error)]

(***************************************************************************)
(* containsMutation                                                        *)
(***************************************************************************)
MutationWord == <<"m","u","t","a","t","i","o","n">>

LineTerminators == {"\n", "\r"}

\* query.replace(/#.*$/gm, ""): from each '#' up to the end of its line
RECURSIVE stripComments(_, _)
stripComments(s, inComment) ==
  IF s = <<>> THEN <<>>
  ELSE IF inComment
    THEN (IF s[1] \in LineTerminators
            THEN <<s[1]>> \o stripComments(Tail(s), FALSE)
            ELSE stripComments(Tail(s), TRUE))
  ELSE IF s[1] = "#" THEN stripComments(Tail(s), TRUE)
  ELSE <<s[1]>> \o stripComments(Tail(s), FALSE)

TripleQuoteAt(s, i) ==
  /\ i + 2 <= Len(s)
  /\ s[i] = "\"" /\ s[i + 1] = "\"" /\ s[i + 2] = "\""

\* .replace(/"""[\s\S]*?"""/g, ""): the leftmost opening """ that has a
\* closing """ after it, up to the nearest closing one, again and again
RECURSIVE stripBlockStrings(_)
stripBlockStrings(s) ==
  LET opens == {i \in 1..Len(s) :
                  /\ TripleQuoteAt(s, i)
                  /\ \E j \in (i + 3)..Len(s) : TripleQuoteAt(s, j)}
  IN  IF opens = {} THEN s
      ELSE LET i == CHOOSE x \in opens : \A y \in opens : x <= y
               j == CHOOSE x \in (i + 3)..Len(s) :
                      /\ TripleQuoteAt(s, x)
                      /\ \A y \in (i + 3)..(x - 1) : ~TripleQuoteAt(s, y)
           IN  SubSeq(s, 1, i - 1) \o stripBlockStrings(SubSeq(s, j + 3, Len(s)))

\* String.prototype.trim
trim(s) ==
  LET keep == {i \in 1..Len(s) : ~IsSpace(s[i])}
  IN  IF keep = {} THEN <<>>
      ELSE SubSeq(s, CHOOSE x \in keep : \A y \in keep : x <= y,
                     CHOOSE x \in keep : \A y \in keep : x >= y)

normalized(query) == trim(stripBlockStrings(stripComments(query, FALSE)))

\* the word, whatever its case, at position k (the flag i)
MatchAt(s, k, word) ==
  /\ k + Len(word) - 1 <= Len(s)
  /\ \A j \in 1..Len(word) : LowerChar(s[k + j - 1]) = word[j]

\* ^ under the flag m: the start of the text or of a line
LineStart(s, p) == p = 1 \/ s[p - 1] \in LineTerminators

\* /^\s*mutation\s/im
StartsLineWithMutation(s) ==
  \E p \in 1..Len(s) : \E k \in p..Len(s) :
    /\ LineStart(s, p)
    /\ \A i \in p..(k - 1) : IsSpace(s[i])
    /\ MatchAt(s, k, MutationWord)
    /\ k + Len(MutationWord) <= Len(s)
    /\ IsSpace(s[k + Len(MutationWord)])

\* /\bmutation\s*\{/im
HasMutationBrace(s) ==
  \E k \in 1..Len(s) :
    /\ k = 1 \/ ~IsWordChar(s[k - 1])
    /\ MatchAt(s, k, MutationWord)
    /\ \E j \in (k + Len(MutationWord))..Len(s) :
         /\ \A i \in (k + Len(MutationWord))..(j - 1) : IsSpace(s[i])
         /\ s[j] = "{"

containsMutation(query) ==
  LET n == normalized(query)
  IN  StartsLineWithMutation(n) \/ HasMutationBrace(n)

(***************************************************************************)
(* The tool run_graphql_query.                                             *)
(***************************************************************************)
EmptyMap == {}

MutationRejected == Plain("Mutation operations are not allowed.", <<>>)

\* the handler up to its first await
run_graphql_query(p, query, variables) ==
  LET rec == Invocation("start", "run_graphql_query",
                        [query |-> query, variables |-> variables],
                        <<>>, Null, Null, Null)
  IN  /\ inv[p].pc = "idle"
      /\ calls < MaxCalls
      /\ inv' = [inv EXCEPT ![p] =
                   IF containsMutation(query)
                     THEN Return(rec, TextResult(MutationRejected))
                     ELSE Await(rec, "awaitData",
                                GraphqlRequest(query,
                                  IF variables # Null THEN variables
                                  ELSE Some(EmptyMap)))]
      /\ calls' = calls + 1
      /\ UNCHANGED <<schemaCache, cacheWrites, fetchFailures, arg, ret>>

\* the label of each tool's catch clause
FailureLabel(tool) ==
  CASE tool = "health_check" -> "Health check failed: "
    [] tool = "list_tables" -> "Failed to list tables: "
    [] tool = "describe_table" -> "Failed to describe table: "
    [] tool = "list_root_fields" -> "Failed to list root fields: "
    [] tool = "describe_graphql_type" -> "Failed to describe type: "
    [] tool = "preview_table_data" -> "Failed to preview data: "
    [] tool = "aggregate_data" -> "Failed to aggregate data: "
    [] tool = "run_graphql_query" -> "GraphQL query failed: "

\* client.request resolves: the handler returns the data as JSON
DataOk(p) ==
  /\ inv[p].pc = "awaitData"
  /\ \E data \in Responses :
       inv' = [inv EXCEPT ![p] = Return(inv[p], TextResult(Json(data)))]
  /\ UNCHANGED <<schemaCache, cacheWrites, fetchFailures, calls, arg, ret>>

\* a slip: the request is sent again when it fails
DataFailRetry(p) ==
  /\ inv[p].pc = "awaitData"
  /\ Len(inv[p].sent) < 4
  /\ inv' = [inv EXCEPT ![p] = Await(inv[p], "awaitData", inv[p].sent[Len(inv[p].sent)])]
  /\ UNCHANGED <<schemaCache, cacheWrites, fetchFailures, calls, arg, ret>>

\* client.request rejects: the handler's catch clause
DataFail(p) ==
  /\ inv[p].pc = "awaitData"
  /\ \E error \in Errors :
       inv' = [inv EXCEPT ![p] = Catch(inv[p], FailureLabel(inv[p].tool), error)]
  /\ UNCHANGED <<schemaCache, cacheWrites, fetchFailures, calls, arg, ret>>

(***************************************************************************)
(* run_graphql_query on query texts built of fragments.                    *)
(***************************************************************************)
Fragments ==
  { MutationWord, <<" ">>, <<"\n">>, <<"{"," ","a"," ","}">>, <<"{"," ">>, <<" ","}">>, <<"(","$","v",":"," ","I","n","t",")">>,
    <<"#">>, <<"\"","\"","\"">>, <<"M">> }

RECURSIVE QueriesOf(_)
QueriesOf(n) ==
  IF n = 0 THEN {<<>>}
  ELSE {q \o f : q \in QueriesOf(n - 1), f \in Fragments}

QueryInputs == UNION {QueriesOf(n) : n \in 0..MaxFrags}

VariablesInputs == {Null, Some({<<"id", 1>>})}

QueryInit ==
  /\ ServerInit
  /\ arg \in {[sort |-> "Query", query |-> q, variables |-> v] :
                q \in QueryInputs, v \in VariablesInputs}
  /\ ret = NoRet

QueryNext ==
  \E p \in Procs :
    \/ /\ calls = 0
       /\ run_graphql_query(p, arg.query, arg.variables)
    \/ DataOk(p)
    \/ DataFail(p)

SpecQuery == QueryInit /\ [][QueryNext]_vars

(***************************************************************************)
(* Properties of run_graphql_query (checked under SpecQuery).              *)
(*                                                                         *)
(* The operations of a query text are found as a GraphQL lexer finds them: *)
(* outside strings, at nesting depth 0 of braces and parentheses, the      *)
(* first word of each definition is its keyword.                           *)
(***************************************************************************)
WordEnd(s, i) ==
  CHOOSE j \in i..Len(s) :
    /\ \A k \in i..j : IsWordChar(s[k])
    /\ j = Len(s) \/ ~IsWordChar(s[j + 1])

RECURSIVE Keywords(_, _, _, _, _)
Keywords(s, i, depth, inString, expect) ==
  IF i > Len(s) THEN <<>>
  ELSE IF inString THEN Keywords(s, i + 1, depth, s[i] # "\"", expect)
  ELSE IF s[i] = "\"" THEN Keywords(s, i + 1, depth, TRUE, expect)
  ELSE IF s[i] \in {"{", "("} THEN Keywords(s, i + 1, depth + 1, FALSE, FALSE)
  ELSE IF s[i] \in {"}", ")"}
    THEN LET d == IF depth > 0 THEN depth - 1 ELSE 0
         IN  Keywords(s, i + 1, d, FALSE, expect \/ (s[i] = "}" /\ d = 0))
  ELSE IF IsWordChar(s[i])
    THEN (IF depth = 0 /\ expect
            THEN <<SubSeq(s, i, WordEnd(s, i))>>
                   \o Keywords(s, WordEnd(s, i) + 1, 0, FALSE, FALSE)
            ELSE Keywords(s, WordEnd(s, i) + 1, depth, FALSE, expect))
  ELSE Keywords(s, i + 1, depth, FALSE, expect)

\* the text has an operation introduced by the keyword 'mutation'
TopLevelMutation(s) == MutationWord \in Range(Keywords(s, 1, 0, FALSE, TRUE))

\* the nesting depth after each character, -1 once a bracket closes nothing
RECURSIVE Depth(_, _, _, _)
Depth(s, i, depth, inString) ==
  IF i > Len(s) THEN (IF inString THEN -1 ELSE depth)
  ELSE IF inString THEN Depth(s, i + 1, depth, s[i] # "\"")
  ELSE IF s[i] = "\"" THEN Depth(s, i + 1, depth, TRUE)
  ELSE IF s[i] \in {"{", "("} THEN Depth(s, i + 1, depth + 1, FALSE)
  ELSE IF s[i] \in {"}", ")"}
    THEN (IF depth = 0 THEN -1 ELSE Depth(s, i + 1, depth - 1, FALSE))
  ELSE Depth(s, i + 1, depth, FALSE)

\* syntactically plausible: brackets and strings closed, ends with a
\* selection set
Plausible(s) ==
  /\ s # <<>>
  /\ s[Len(s)] = "}"
  /\ Depth(s, 1, 0, FALSE) = 0

QueryInvocations ==
  {p \in Procs : inv[p].pc # "idle" /\ inv[p].tool = "run_graphql_query"}

\* C1: every query text whose normalized form has a top-level operation
\* introduced by the keyword 'mutation', whatever follows the keyword (a
\* name, a variable list, a selection set), is answered with 'Mutation
\* operations are not allowed.' and no request for it is sent.  (Stated for
\* the syntactically plausible texts.)
C1_MutationAlwaysRejected ==
  \A p \in QueryInvocations :
    LET n == normalized(inv[p].args.query)
    IN  (Plausible(n) /\ TopLevelMutation(n)) =>
          /\ inv[p].result = Some(TextResult(MutationRejected))
          /\ inv[p].sent = <<>>

\* C2: every query text with no top-level 'mutation' operation (a field
\* named 'mutation' included) is not rejected, and exactly one request is
\* sent, whose query is the input character for character and whose
\* variables are the supplied ones, or an empty map when none are supplied.
\* (Stated for the syntactically plausible texts.)
C2_QueryAlwaysForwarded ==
  \A p \in QueryInvocations :
    LET n == normalized(inv[p].args.query)
    IN  (Plausible(n) /\ ~TopLevelMutation(n)) =>
          /\ inv[p].result # Some(TextResult(MutationRejected))
          /\ inv[p].sent =
               <<GraphqlRequest(inv[p].args.query,
                                IF inv[p].args.variables # Null
                                  THEN inv[p].args.variables
                                  ELSE Some(EmptyMap))>>

(***************************************************************************)
(* The schemas the endpoint may answer the introspection query with.       *)
(***************************************************************************)
Named(kind, name) == TypeRef(kind, Some(name), Null)
NonNull(t) == TypeRef("NON_NULL", Null, Some(t))
List(t) == TypeRef("LIST", Null, Some(t))

Field(name, type) == [name |-> name, description |-> Null, type |-> type, args |-> <<>>]

Authors == <<"a","u","t","h","o","r","s">>
Articles == <<"a","r","t","i","c","l","e","s">>
String == <<"S","t","r","i","n","g">>
AuthorsAggregate == <<"a","u","t","h","o","r","s","_","a","g","g","r","e","g","a","t","e">>
Public == <<"p","u","b","l","i","c">>

\* a schema as Hasura generates it for the tables authors and articles
HasuraSchema ==
  Schema(Some([name |-> QueryRoot]), Some([name |-> MutationRoot]),
         Some([name |-> SubscriptionRoot]),
    << NamedType("OBJECT", QueryRoot,
         Some(<< Field(Authors, NonNull(List(NonNull(Named("OBJECT", Authors))))),
                 Field(Articles, NonNull(List(NonNull(Named("OBJECT", Articles))))),
                 Field(AuthorsAggregate, NonNull(Named("OBJECT", AuthorsAggregate))) >>)),
       NamedType("OBJECT", MutationRoot,
         Some(<< Field(<<"i","n","s","e","r","t","_","a","u","t","h","o","r","s">>,
                       Named("OBJECT", <<"a","u","t","h","o","r","s","_","m","u","t","a","t","i","o","n","_","r","e","s","p","o","n","s","e">>)) >>)),
       NamedType("OBJECT", Authors,
         Some(<< Field(<<"i","d">>, NonNull(Named("SCALAR", Uuid))),
                 Field(<<"n","a","m","e">>, NonNull(Named("SCALAR", String))),
                 Field(Articles, NonNull(List(NonNull(Named("OBJECT", Articles))))) >>)),
       NamedType("OBJECT", Articles,
         Some(<< Field(<<"i","d">>, NonNull(Named("SCALAR", Uuid))),
                 Field(<<"t","a","g","s">>, List(NonNull(Named("SCALAR", String)))),
                 Field(<<"s","t","a","t","u","s">>, Named("ENUM", Status)) >>)),
       NamedType("OBJECT", AuthorsAggregate,
         Some(<< Field(<<"a","g","g","r","e","g","a","t","e">>, Named("OBJECT", <<"a","u","t","h","o","r","s","_","a","g","g","r","e","g","a","t","e","_","f","i","e","l","d","s">>)) >>)),
       NamedType("SCALAR", Uuid, Null),
       NamedType("SCALAR", String, Null),
       FullType("ENUM", Status, Null, Null,
                Some(<< [name |-> <<"d","r","a","f","t">>, description |-> Null] >>)),
       FullType("INPUT_OBJECT", <<"a","u","t","h","o","r","s","_","b","o","o","l","_","e","x","p">>, Null,
                Some(<< [name |-> <<"i","d">>, type |-> Named("SCALAR", Uuid)] >>), Null),
       NamedType("OBJECT", <<"_","_","S","c","h","e","m","a">>,
         Some(<< Field(<<"t","y","p","e","s">>, NonNull(List(NonNull(Named("OBJECT", <<"_","_","T","y","p","e">>))))) >>)) >>)

\* a read-only schema with a custom query root and no mutation type
ReadOnlySchema ==
  Schema(Some([name |-> CustomQuery]), Null, Null,
    << NamedType("OBJECT", CustomQuery,
         Some(<< Field(Authors, NonNull(List(NonNull(Named("OBJECT", <<"p","u","b","l","i","c","_","a","u","t","h","o","r","s">>))))),
                 Field(Book, List(Named("OBJECT", Book))),
                 Field(Uuid, Named("SCALAR", Uuid)) >>)),
       NamedType("OBJECT", <<"p","u","b","l","i","c","_","a","u","t","h","o","r","s">>,
         Some(<< Field(<<"i","d">>, NonNull(Named("SCALAR", Uuid))),
                 Field(Book, Named("OBJECT", Book)) >>)),
       NamedType("OBJECT", Book,
         Some(<< Field(<<"a","u","t","h","o","r">>, NonNull(Named("OBJECT", <<"p","u","b","l","i","c","_","a","u","t","h","o","r","s">>))) >>)),
       NamedType("OBJECT", <<"A","r","t","i","c","l","e","s">>,
         Some(<< Field(<<"t","i","t","l","e">>, Named("SCALAR", String)) >>)),
       NamedType("OBJECT", MutationRoot, Some(<<>>)),
       NamedType("SCALAR", Uuid, Null) >>)

Schemas == {HasuraSchema, ReadOnlySchema}

\* what the endpoint answers now: the one schema it serves when the run
\* fixes it, any of Schemas otherwise
Endpoint == IF arg.sort = "endpoint" THEN {arg.schema} ELSE Schemas

(***************************************************************************)
(* getSchema and the handlers' code after `await getSchema()`.             *)
(***************************************************************************)
IntrospectionQuery == <<"q","u","e","r","y"," ","I","n","t","r","o","s","p","e","c","t","i","o","n","Q","u","e","r","y">>
TypenameQuery == <<"q","u","e","r","y"," ","{"," ","_","_","t","y","p","e","n","a","m","e"," ","}">>

IsIntrospection(request) ==
  request.to = "graphql" /\ request.query = IntrospectionQuery

\* a slip: the names are left in schema order
sortOmitted(names) == names

\* Array.prototype.sort without a comparator, by insertion
RECURSIVE Insert(_, _)
Insert(sorted, x) ==
  IF sorted = <<>> THEN <<x>>
  ELSE IF StrLess(x, sorted[1]) THEN <<x>> \o sorted
  ELSE <<sorted[1]>> \o Insert(Tail(sorted), x)

RECURSIVE sort(_)
sort(names) ==
  IF names = <<>> THEN <<>>
  ELSE Insert(sort(SubSeq(names, 1, Len(names) - 1)), names[Len(names)])

\* Array.prototype.filter, as the indices kept, in order
RECURSIVE Kept(_, _)
Kept(keep, n) ==
  IF n = 0 THEN <<>>
  ELSE IF keep[n] THEN Append(Kept(keep, n - 1), n) ELSE Kept(keep, n - 1)

\* Array.prototype.join(" ")
RECURSIVE join(_)
join(names) ==
  IF names = <<>> THEN <<>>
  ELSE IF Len(names) = 1 THEN names[1]
  ELSE names[1] \o <<" ">> \o join(Tail(names))

FieldSummary(field) ==
  [name |-> field.name, description |-> field.description,
   type |-> toTypeString(field.type),
   args |-> [i \in 1..Len(field.args) |->
               [name |-> field.args[i].name, type |-> toTypeString(field.args[i].type)]]]

list_tables_body(rec, schema) ==
  LET idx == Kept([i \in 1..Len(schema.types) |-> isLikelyTableType(schema.types[i])],
                  Len(schema.types))
      tables == sort([i \in 1..Len(idx) |-> schema.types[idx[i]].name])
  IN  Return(rec, TextResult(Json([tables |-> tables])))

\* a slip: isNonNull is taken for isNullable
FieldDescriptorNotNegated(field) ==
  [name |-> field.name,
   description |-> field.description,
   type |-> toTypeString(field.type),
   isList |-> unwrapType(field.type).isList,
   isNullable |-> unwrapType(field.type).isNonNull]

\* describe_table: the descriptor of one field
FieldDescriptor(field) ==
  [name |-> field.name,
   description |-> field.description,
   type |-> toTypeString(field.type),
   isList |-> unwrapType(field.type).isList,
   isNullable |-> ~unwrapType(field.type).isNonNull]

\* a slip: the case-insensitive scan comes before the qualified name
describe_table_bodyScanFirst(rec, schema) ==
  LET tableName == rec.args.tableName
      lower == toLowerCase(tableName)
      exact == getTypeByName(schema, tableName)
      ci == Kept([i \in 1..Len(schema.types) |->
                    toLowerCase(schema.types[i].name) = lower], Len(schema.types))
      type == IF exact # Null THEN exact
              ELSE IF ci # <<>> THEN Some(schema.types[ci[1]])
              ELSE IF rec.args.schemaName # Null /\ rec.args.schemaName[1] # <<>>
                THEN getTypeByName(schema, rec.args.schemaName[1] \o <<"_">> \o tableName)
              ELSE Null
  IN  IF type = Null \/ type[1].fields = Null
        THEN Return(rec, TextResult(Plain("Table not found: ", tableName)))
        ELSE LET fs == type[1].fields[1]
                 fields == [i \in 1..Len(fs) |-> FieldDescriptor(fs[i])]
             IN  Return(rec, TextResult(Json([tableName |-> tableName, fields |-> fields])))

describe_table_body(rec, schema) ==
  LET tableName == rec.args.tableName
      schemaName == rec.args.schemaName
      candidates ==
        IF schemaName # Null /\ schemaName[1] # <<>>
          THEN <<tableName, schemaName[1] \o <<"_">> \o tableName>>
          ELSE <<tableName>>
      hits == Kept([i \in 1..Len(candidates) |->
                      getTypeByName(schema, candidates[i]) # Null], Len(candidates))
      lower == toLowerCase(tableName)
      ci == Kept([i \in 1..Len(schema.types) |->
                    toLowerCase(schema.types[i].name) = lower], Len(schema.types))
      type == IF hits # <<>> THEN getTypeByName(schema, candidates[hits[1]])
              ELSE IF ci # <<>> THEN Some(schema.types[ci[1]])
              ELSE Null
  IN  IF type = Null \/ type[1].fields = Null
        THEN Return(rec, TextResult(Plain("Table not found: ", tableName)))
        ELSE LET fs == type[1].fields[1]
                 fields == [i \in 1..Len(fs) |-> FieldDescriptor(fs[i])]
             IN  Return(rec, TextResult(Json([tableName |-> tableName, fields |-> fields])))

list_root_fields_body(rec, schema) ==
  LET fieldType == IF rec.args.fieldType # Null THEN rec.args.fieldType[1] ELSE "QUERY"
      op == CASE fieldType = "QUERY" -> "query"
              [] fieldType = "MUTATION" -> "mutation"
              [] fieldType = "SUBSCRIPTION" -> "subscription"
      rootType == getTypeByName(schema, getRootTypeName(schema, op))
  IN  IF rootType = Null \/ rootType[1].fields = Null
        THEN Return(rec, TextResult(Plain("Root type not found for ",
                                          CASE op = "query" -> <<"q","u","e","r","y">>
                                            [] op = "mutation" -> MutationWord
                                            [] op = "subscription" ->
                                                 <<"s","u","b","s","c","r","i","p","t","i","o","n">>)))
        ELSE LET fs == rootType[1].fields[1]
             IN  Return(rec, TextResult(Json(
                   [fieldType |-> fieldType,
                    fields |-> [i \in 1..Len(fs) |-> FieldSummary(fs[i])]])))

describe_graphql_type_body(rec, schema) ==
  LET found == getTypeByName(schema, rec.args.typeName)
  IN  IF found = Null
        THEN Return(rec, TextResult(Plain("Type not found: ", rec.args.typeName)))
        ELSE LET t == found[1]
             IN  Return(rec, TextResult(Json(
                   [name |-> t.name, kind |-> t.kind, description |-> t.description,
                    fields |->
                      IF t.fields = Null THEN Null
                      ELSE Some([i \in 1..Len(t.fields[1]) |-> FieldSummary(t.fields[1][i])]),
                    enumValues |->
                      IF t.enumValues = Null THEN Null
                      ELSE Some([i \in 1..Len(t.enumValues[1]) |->
                                   [name |-> t.enumValues[1][i].name,
                                    description |-> t.enumValues[1][i].description]]),
                    inputFields |->
                      IF t.inputFields = Null THEN Null
                      ELSE Some([i \in 1..Len(t.inputFields[1]) |->
                                   [name |-> t.inputFields[1][i].name,
                                    type |-> toTypeString(t.inputFields[1][i].type)]])])))

DefaultLimit == 5

preview_table_data_body(rec, schema) ==
  LET tableName == rec.args.tableName
      rootType == getTypeByName(schema, getRootTypeName(schema, "query"))
      rootFields == IF rootType = Null \/ rootType[1].fields = Null THEN <<>>
                    ELSE rootType[1].fields[1]
      at == Kept([i \in 1..Len(rootFields) |-> rootFields[i].name = tableName],
                 Len(rootFields))
  IN  IF at = <<>>
        THEN Return(rec, TextResult(Plain("Query root field not found: ", tableName)))
        ELSE
    LET named == unwrapType(rootFields[at[1]].type)
        tableType == IF named.name # Null /\ named.name[1] # <<>>
                       THEN getTypeByName(schema, named.name[1]) ELSE Null
    IN  IF tableType = Null \/ tableType[1].fields = Null
          THEN Return(rec, TextResult(Plain("Cannot resolve object type for ", tableName)))
          ELSE
    LET fs == tableType[1].fields[1]
        scalar == Kept([i \in 1..Len(fs) |->
                          isScalarOrEnum(unwrapType(fs[i].type).name, schema)], Len(fs))
        scalarFields == [i \in 1..Len(scalar) |-> fs[scalar[i]].name]
    IN  IF Len(scalarFields) = 0
          THEN Return(rec, TextResult(Plain("No scalar fields found for ", tableName)))
          ELSE Await(rec, "awaitData",
                 GraphqlRequest(
                   <<"q","u","e","r","y"," ","P","r","e","v","i","e","w","T","a","b","l","e","(","$","l","i","m","i","t",":"," ","I","n","t",")"," ","{"," ">> \o tableName
                     \o <<"(","l","i","m","i","t",":"," ","$","l","i","m","i","t",")"," ","{"," ">> \o join(scalarFields) \o <<" ","}"," ","}">>,
                   Some({<<"limit", IF rec.args.limit # Null THEN rec.args.limit[1]
                                    ELSE DefaultLimit>>})))

WriteAccessWarning ==
  "Mutation fields are present in the schema. These credentials likely have write access. Consider using read-only credentials."

\* a slip: an empty field list counts as mutation fields
hasMutationFieldsAnyList(mutationType) ==
  /\ mutationType # Null
  /\ mutationType[1].fields # Null

\* Boolean(mutationType?.fields && mutationType.fields.length > 0)
hasMutationFieldsOf(mutationType) ==
  /\ mutationType # Null
  /\ mutationType[1].fields # Null
  /\ Len(mutationType[1].fields[1]) > 0

health_check_body(rec, schema) ==
  LET mutationType == getTypeByName(schema, getRootTypeName(schema, "mutation"))
      hasMutationFields == hasMutationFieldsOf(mutationType)
      warnings == IF hasMutationFields THEN <<WriteAccessWarning>> ELSE <<>>
  IN  Return(rec, TextResult(Json(
        [data |-> rec.data[1], hasMutationFields |-> hasMutationFields,
         warnings |-> warnings])))

schema_resource_body(rec, schema) == Return(rec, ContentsResult(Json(schema)))

\* the code that follows `const schema = await getSchema()` in each handler
WithSchema(rec, schema) ==
  CASE rec.tool = "list_tables" -> list_tables_body(rec, schema)
    [] rec.tool = "describe_table" -> describe_table_body(rec, schema)
    [] rec.tool = "list_root_fields" -> list_root_fields_body(rec, schema)
    [] rec.tool = "describe_graphql_type" -> describe_graphql_type_body(rec, schema)
    [] rec.tool = "preview_table_data" -> preview_table_data_body(rec, schema)
    [] rec.tool = "health_check" -> health_check_body(rec, schema)
    [] rec.tool = "schema" -> schema_resource_body(rec, schema)

\* a slip: the cache is not consulted
getSchemaAlwaysFetch(rec) ==
  Await(rec, "awaitIntrospection", GraphqlRequest(IntrospectionQuery, Null))

\* getSchema up to its await: the cached schema, or the introspection
\* request is sent
getSchema(rec) ==
  IF schemaCache # Null
    THEN WithSchema(rec, schemaCache[1])
    ELSE Await(rec, "awaitIntrospection", GraphqlRequest(IntrospectionQuery, Null))

(***************************************************************************)
(* The handlers, each up to its first await.                               *)
(***************************************************************************)
NewInvocation(tool, args) == Invocation("start", tool, args, <<>>, Null, Null, Null)

Dispatched(p, rec) ==
  /\ inv[p].pc = "idle"
  /\ calls < MaxCalls
  /\ inv' = [inv EXCEPT ![p] = rec]
  /\ calls' = calls + 1
  /\ UNCHANGED <<schemaCache, cacheWrites, fetchFailures, arg, ret>>

\* the resource hasura://schema
schema_resource(p) ==
  Dispatched(p, getSchema(NewInvocation("schema", [uri |-> "hasura://schema"])))

health_check(p, healthEndpointUrl) ==
  LET rec == NewInvocation("health_check", [healthEndpointUrl |-> healthEndpointUrl])
  IN  Dispatched(p,
        IF healthEndpointUrl # Null
          THEN Await(rec, "awaitFetch", FetchRequest(healthEndpointUrl[1]))
          ELSE Await(rec, "awaitTypename", GraphqlRequest(TypenameQuery, Null)))

list_tables(p, schemaName) ==
  Dispatched(p, getSchema(NewInvocation("list_tables", [schemaName |-> schemaName])))

describe_table(p, tableName, schemaName) ==
  Dispatched(p, getSchema(NewInvocation("describe_table",
                            [tableName |-> tableName, schemaName |-> schemaName])))

list_root_fields(p, fieldType) ==
  Dispatched(p, getSchema(NewInvocation("list_root_fields", [fieldType |-> fieldType])))

describe_graphql_type(p, typeName) ==
  Dispatched(p, getSchema(NewInvocation("describe_graphql_type", [typeName |-> typeName])))

preview_table_data(p, tableName, limit) ==
  Dispatched(p, getSchema(NewInvocation("preview_table_data",
                            [tableName |-> tableName, limit |-> limit])))

\* a slip: only an absent field is missing, an empty one passes
FieldMissingAbsentOnly(aggregateFunction, field) ==
  aggregateFunction # <<"c","o","u","n","t">> /\ field = Null

\* aggregateFunction !== "count" && !field
FieldMissing(aggregateFunction, field) ==
  aggregateFunction # <<"c","o","u","n","t">> /\ (field = Null \/ field[1] = <<>>)

aggregate_data(p, tableName, aggregateFunction, field, filter) ==
  LET rec == NewInvocation("aggregate_data",
               [tableName |-> tableName, aggregateFunction |-> aggregateFunction,
                field |-> field, filter |-> filter])
      count == <<"c","o","u","n","t">>
      aggregateField ==
        IF aggregateFunction = count THEN count
        ELSE aggregateFunction \o <<" ","{"," ">> \o field[1] \o <<" ","}">>
      varDef == IF filter # Null
                  THEN <<"(","$","w","h","e","r","e",":"," ">> \o tableName \o <<"_","b","o","o","l","_","e","x","p","!",")">> ELSE <<>>
      whereArg == IF filter # Null THEN <<"(","w","h","e","r","e",":"," ","$","w","h","e","r","e",")">> ELSE <<>>
      query == <<"q","u","e","r","y"," ","A","g","g","r","e","g","a","t","e">> \o varDef \o <<" ","{"," ">> \o tableName
                 \o <<"_","a","g","g","r","e","g","a","t","e">> \o whereArg \o <<" ","{"," ","a","g","g","r","e","g","a","t","e"," ","{"," ">>
                 \o aggregateField \o <<" ","}"," ","}"," ","}">>
  IN  Dispatched(p,
        IF FieldMissing(aggregateFunction, field)
          THEN Return(rec, TextResult(Plain("Field is required for this aggregation.", <<>>)))
          ELSE Await(rec, "awaitData",
                 GraphqlRequest(query,
                   IF filter # Null THEN Some({<<"where", filter[1]>>}) ELSE Null)))

(***************************************************************************)
(* The handlers resumed by the network.                                    *)
(***************************************************************************)
\* a slip: the schema is fetched a second time after a failure
IntrospectionFailRetry(p) ==
  /\ inv[p].pc = "awaitIntrospection"
  /\ inv' = [inv EXCEPT ![p] =
               Await(inv[p], "awaitIntrospection", GraphqlRequest(IntrospectionQuery, Null))]
  /\ Len(inv[p].sent) < 3
  /\ fetchFailures' = fetchFailures + 1
  /\ UNCHANGED <<schemaCache, cacheWrites, calls, arg, ret>>

\* the introspection request resolves: getSchema assigns the cache and the
\* handler goes on with the schema
IntrospectionOk(p) ==
  /\ inv[p].pc = "awaitIntrospection"
  /\ \E schema \in Endpoint :
       /\ schemaCache' = Some(schema)
       /\ inv' = [inv EXCEPT ![p] = WithSchema(inv[p], schema)]
  /\ cacheWrites' = cacheWrites + 1
  /\ UNCHANGED <<fetchFailures, calls, arg, ret>>

\* the introspection request rejects: getSchema throws into the handler,
\* whose catch clause answers; the resource handler has none
IntrospectionFail(p) ==
  /\ inv[p].pc = "awaitIntrospection"
  /\ \E error \in Errors :
       inv' = [inv EXCEPT ![p] =
                 IF inv[p].tool = "schema"
                   THEN [Return(inv[p], Thrown(error)) EXCEPT !.thrown = Some(error)]
                   ELSE Catch(inv[p], FailureLabel(inv[p].tool), error)]
  /\ fetchFailures' = fetchFailures + 1
  /\ UNCHANGED <<schemaCache, cacheWrites, calls, arg, ret>>

\* health_check: client.request("query { __typename }") resolves, and the
\* handler calls getSchema
TypenameOk(p) ==
  /\ inv[p].pc = "awaitTypename"
  /\ \E data \in Responses :
       inv' = [inv EXCEPT ![p] = getSchema([inv[p] EXCEPT !.data = Some(data)])]
  /\ UNCHANGED <<schemaCache, cacheWrites, fetchFailures, calls, arg, ret>>

TypenameFail(p) ==
  /\ inv[p].pc = "awaitTypename"
  /\ \E error \in Errors :
       inv' = [inv EXCEPT ![p] = Catch(inv[p], FailureLabel(inv[p].tool), error)]
  /\ UNCHANGED <<schemaCache, cacheWrites, fetchFailures, calls, arg, ret>>

\* health_check with a URL: fetch and response.text() resolve
FetchOk(p) ==
  /\ inv[p].pc = "awaitFetch"
  /\ inv' = [inv EXCEPT ![p] =
               Return(inv[p], TextResult(Json([status |-> 200, body |-> "OK"])))]
  /\ UNCHANGED <<schemaCache, cacheWrites, fetchFailures, calls, arg, ret>>

FetchFail(p) ==
  /\ inv[p].pc = "awaitFetch"
  /\ \E error \in Errors :
       inv' = [inv EXCEPT ![p] = Catch(inv[p], FailureLabel(inv[p].tool), error)]
  /\ UNCHANGED <<schemaCache, cacheWrites, fetchFailures, calls, arg, ret>>

(***************************************************************************)
(* The server under sequential dispatch: the host hands the next           *)
(* invocation over when the one before has returned.                       *)
(***************************************************************************)
TableNames == {Authors, <<"A","r","t","i","c","l","e","s">>, Book, Missing}
SchemaNames == {Null, Some(Public)}
FieldTypes == {Null, Some("QUERY"), Some("MUTATION"), Some("SUBSCRIPTION")}
TypeNames == {Authors, Status, <<"a","u","t","h","o","r","s","_","b","o","o","l","_","e","x","p">>, Missing}
Limits == {Null, Some(2)}
AggregateFunctions == {<<"c","o","u","n","t">>, <<"s","u","m">>}
AggregateFields == {Null, Some(<<>>), Some(<<"i","d">>)}
Filters == {Null, Some(EmptyMap)}
HealthUrls == {Null, Some("http://hasura/healthz")}
ToolQueries ==
  { <<"q","u","e","r","y"," ","{"," ","a","u","t","h","o","r","s"," ","{"," ","i","d"," ","n","a","m","e"," ","}"," ","}">>, <<"m","u","t","a","t","i","o","n"," ","{"," ","d","e","l","e","t","e","_","a","u","t","h","o","r","s"," ","}">> }

Init ==
  /\ ServerInit
  /\ arg = [sort |-> "none"]
  /\ ret = NoRet

Sequential == \A q \in Procs : inv[q].pc = "idle"

\* the transport has written the result: the slot is free again
Deliver(p) ==
  /\ inv[p].pc = "done"
  /\ inv' = [inv EXCEPT ![p] = IdleInv]
  /\ UNCHANGED <<schemaCache, cacheWrites, fetchFailures, calls, arg, ret>>

Resume(p) ==
  \/ IntrospectionOk(p)
  \/ IntrospectionFail(p)
  \/ TypenameOk(p)
  \/ TypenameFail(p)
  \/ FetchOk(p)
  \/ FetchFail(p)
  \/ DataOk(p)
  \/ DataFail(p)
  \/ Deliver(p)

Next ==
  \E p \in Procs :
    \/ Sequential /\ schema_resource(p)
    \/ Sequential /\ \E url \in HealthUrls : health_check(p, url)
    \/ Sequential /\ \E schemaName \in SchemaNames : list_tables(p, schemaName)
    \/ Sequential /\ \E tableName \in TableNames, schemaName \in SchemaNames :
                       describe_table(p, tableName, schemaName)
    \/ Sequential /\ \E fieldType \in FieldTypes : list_root_fields(p, fieldType)
    \/ Sequential /\ \E typeName \in TypeNames : describe_graphql_type(p, typeName)
    \/ Sequential /\ \E tableName \in TableNames, limit \in Limits :
                       preview_table_data(p, tableName, limit)
    \/ Sequential /\ \E tableName \in {Authors}, fn \in AggregateFunctions,
                        field \in AggregateFields, filter \in Filters :
                       aggregate_data(p, tableName, fn, field, filter)
    \/ Sequential /\ \E query \in ToolQueries, variables \in VariablesInputs :
                       run_graphql_query(p, query, variables)
    \/ Resume(p)

Spec == Init /\ [][Next]_vars

(***************************************************************************)
(* Properties of the server under sequential dispatch (checked under Spec).*)
(***************************************************************************)
ToolNames ==
  { "health_check", "list_tables", "describe_table", "list_root_fields",
    "describe_graphql_type", "preview_table_data", "aggregate_data",
    "run_graphql_query" }

\* the tools whose handler starts with `await getSchema()`
SchemaFirstTools ==
  { "list_tables", "describe_table", "list_root_fields", "describe_graphql_type",
    "preview_table_data" }

\* the failure labels as the tools' contract has them
C8_Label(tool) ==
  CASE tool = "health_check" -> "Health check failed: "
    [] tool = "list_tables" -> "Failed to list tables: "
    [] tool = "describe_table" -> "Failed to describe table: "
    [] tool = "list_root_fields" -> "Failed to list root fields: "
    [] tool = "describe_graphql_type" -> "Failed to describe type: "
    [] tool = "preview_table_data" -> "Failed to preview data: "
    [] tool = "aggregate_data" -> "Failed to aggregate data: "
    [] tool = "run_graphql_query" -> "GraphQL query failed: "

\* C8: every tool invocation completes with a text result, whatever failed
\* while it ran (the introspection fetch, a request, a lookup, a
\* validation): no exception leaves a tool handler; when an error was
\* thrown the text is the tool's failure label followed by the error's
\* message (String(error) for a thrown value that is no Error).
C8_FailuresBecomeText ==
  \A p \in Procs :
    (inv[p].pc = "done" /\ inv[p].tool \in ToolNames) =>
      /\ inv[p].result # Null
      /\ inv[p].result[1].kind = "text"
      /\ inv[p].thrown # Null =>
           inv[p].result[1].text =
             Plain(C8_Label(inv[p].tool),
                   IF inv[p].thrown[1].isError THEN inv[p].thrown[1].message
                   ELSE inv[p].thrown[1].string)

\* describe_table answers a failed introspection fetch with its label and
\* the Error's message, as the third invocation, after an earlier
\* invocation's fetch had failed too
C8_Witness ==
  \E p \in Procs :
    /\ inv[p].pc = "done"
    /\ inv[p].tool = "describe_table"
    /\ inv[p].thrown # Null
    /\ inv[p].thrown[1].isError
    /\ inv[p].result = Some(TextResult(Plain("Failed to describe table: ",
                                             <<"d","o","w","n">>)))
    /\ fetchFailures = 2
    /\ calls = 3

\* the introspection requests an invocation has sent
IntrospectionsSent(rec) ==
  IF rec.pc = "idle" THEN 0
  ELSE Cardinality({i \in 1..Len(rec.sent) : IsIntrospection(rec.sent[i])})

\* C9: under sequential dispatch the cache is populated at most once: once
\* it holds a schema it keeps it, no invocation sends an introspection
\* request any more, and an invocation that needs the schema reads the
\* cached one (the resource answers with the cached schema).
C9_PopulatedAtMostOnce ==
  [][ /\ cacheWrites' <= 1
      /\ schemaCache # Null =>
           /\ schemaCache' = schemaCache
           /\ \A p \in Procs :
                /\ IntrospectionsSent(inv'[p]) <= IntrospectionsSent(inv[p])
                /\ (inv[p].pc = "idle" /\ inv'[p].pc # "idle"
                      /\ inv'[p].tool \in SchemaFirstTools \cup {"schema"}) =>
                     inv'[p].pc # "awaitIntrospection"
                /\ (inv[p].pc = "idle" /\ inv'[p].pc # "idle" /\ inv'[p].tool = "schema") =>
                     inv'[p].result = Some(ContentsResult(Json(schemaCache[1])))
    ]_vars

\* the third invocation, list_tables, answers from the cache
C9_Witness ==
  \E p \in Procs :
    /\ inv[p].pc = "done"
    /\ inv[p].tool = "list_tables"
    /\ inv[p].sent = <<>>
    /\ inv[p].result[1].text.form = "json"
    /\ schemaCache # Null
    /\ cacheWrites = 1
    /\ calls = 3

\* C10: when the introspection fetch fails during a tool invocation, that
\* invocation alone ends, with an error text; no invocation sends the
\* introspection request twice (no retry); the cache stays null; and the
\* next invocation that needs the schema sends a fresh introspection
\* request.
C10_FailedFetchLeavesCacheEmpty ==
  [][ \A p \in Procs :
        /\ IntrospectionsSent(inv'[p]) <= 1
        /\ (inv[p].pc = "awaitIntrospection" /\ fetchFailures' = fetchFailures + 1) =>
             /\ schemaCache' = Null
             /\ inv'[p].pc = "done"
             /\ \A q \in Procs \ {p} : inv'[q] = inv[q]
             /\ inv'[p].tool \in ToolNames =>
                  /\ inv'[p].result[1].kind = "text"
                  /\ inv'[p].result[1].text.form = "plain"
                  /\ inv'[p].result[1].text.label = C8_Label(inv'[p].tool)
        /\ (schemaCache = Null /\ inv[p].pc = "idle" /\ inv'[p].pc # "idle"
              /\ inv'[p].tool \in SchemaFirstTools) =>
             /\ inv'[p].pc = "awaitIntrospection"
             /\ inv'[p].sent = <<GraphqlRequest(IntrospectionQuery, Null)>>
    ]_vars

\* after a failed fetch, the next invocation has sent the introspection
\* request again
C10_Witness ==
  \E p \in Procs :
    /\ fetchFailures = 1
    /\ calls = 2
    /\ schemaCache = Null
    /\ inv[p].pc = "awaitIntrospection"
    /\ inv[p].tool = "list_tables"
    /\ inv[p].sent = <<GraphqlRequest(IntrospectionQuery, Null)>>

(***************************************************************************)
(* The server under concurrent dispatch: the transport starts a handler    *)
(* for every request it reads, whether or not earlier ones have returned,  *)
(* so handlers interleave at their awaits.  The schema-dependent handlers  *)
(* are enough to show what getSchema does then.                            *)
(***************************************************************************)
NextConcurrent ==
  \E p \in Procs :
    \/ schema_resource(p)
    \/ \E schemaName \in SchemaNames : list_tables(p, schemaName)
    \/ \E tableName \in {Authors, Missing} : describe_table(p, tableName, Null)
    \/ IntrospectionOk(p)
    \/ IntrospectionFail(p)
    \/ Deliver(p)

SpecConcurrent == Init /\ [][NextConcurrent]_vars

\* C11: once the schema cache holds a schema it holds that same schema for
\* ever: no step of any invocation, resource read or fetch completion
\* changes it.
C11_CacheNeverReassigned ==
  [][schemaCache # Null => schemaCache' = schemaCache]_vars

\* C18: with invocations in flight concurrently, at most one introspection
\* request is outstanding at a time and the cache is assigned at most once.
C18_PopulationAtMostOnce ==
  /\ Cardinality({p \in Procs : inv[p].pc = "awaitIntrospection"}) <= 1
  /\ cacheWrites <= 1

(***************************************************************************)
(* Round trips to the GraphQL endpoint (checked under Spec).               *)
(***************************************************************************)
\* the requests an invocation has sent to the GraphQL endpoint
GraphqlSent(rec) ==
  IF rec.pc = "idle" THEN 0
  ELSE Cardinality({i \in 1..Len(rec.sent) : rec.sent[i].to = "graphql"})

\* C12 as stated: one round trip to the GraphQL endpoint per tool
\* invocation, two for preview_table_data alone, the extra one being the
\* schema fetch.
C12_OneRoundTripButPreview ==
  \A p \in Procs :
    (inv[p].pc # "idle" /\ inv[p].tool \in ToolNames) =>
      /\ GraphqlSent(inv[p]) <= IF inv[p].tool = "preview_table_data" THEN 2 ELSE 1
      /\ GraphqlSent(inv[p]) = 2 => IntrospectionsSent(inv[p]) = 1

\* C12, amended: health_check without a URL is a second exception.  Every
\* tool invocation sends at most one request of its own to the GraphQL
\* endpoint; preview_table_data and health_check may send the
\* introspection request besides, the other tools that need the schema
\* send it instead, and it is sent only in a step that finds the cache
\* empty.
C12_RoundTripBound ==
  [][ \A p \in Procs :
        (inv'[p].pc # "idle" /\ inv'[p].tool \in ToolNames) =>
          /\ GraphqlSent(inv'[p]) <=
               IF inv'[p].tool \in {"preview_table_data", "health_check"} THEN 2 ELSE 1
          /\ GraphqlSent(inv'[p]) - IntrospectionsSent(inv'[p]) <= 1
          /\ IntrospectionsSent(inv'[p]) <= 1
          /\ schemaCache # Null =>
               IntrospectionsSent(inv'[p]) <= IntrospectionsSent(inv[p])
    ]_vars

\* health_check without a URL has completed after two round trips: the
\* __typename query and the schema fetch
C12_Witness ==
  \E p \in Procs :
    /\ inv[p].pc = "done"
    /\ inv[p].tool = "health_check"
    /\ inv[p].args.healthEndpointUrl = Null
    /\ inv[p].sent = <<GraphqlRequest(TypenameQuery, Null),
                       GraphqlRequest(IntrospectionQuery, Null)>>
    /\ inv[p].thrown = Null

(***************************************************************************)
(* One tool invocation against an endpoint that serves one schema: the     *)
(* server starts with an empty cache, the tool is called once, and the     *)
(* requests resolve.                                                        *)
(***************************************************************************)
MaxSchemaTypes == 3     \* types in a schema the endpoint serves

\* sequences of at most n types of a pool, no name twice
RECURSIVE TypeListsOf(_, _)
TypeListsOf(pool, n) ==
  IF n = 0 THEN {<<>>}
  ELSE LET shorter == TypeListsOf(pool, n - 1)
       IN  shorter \cup
           { Append(l, t) : l \in {x \in shorter : Len(x) = n - 1}, t \in pool }

SchemasOver(pool, queryType, mutationType) ==
  { Schema(queryType, mutationType, Null, l) :
      l \in {x \in TypeListsOf(pool, MaxSchemaTypes) : UniqueNames(x)} }

ArticlesUpper == <<"A","r","t","i","c","l","e","s">>

ListTablesPool ==
  { NamedType("OBJECT", Authors, Some(<<IdField>>)),
    NamedType("OBJECT", Articles, Some(<<IdField>>)),
    NamedType("OBJECT", ArticlesUpper, Some(<<IdField>>)),
    NamedType("OBJECT", AuthorsAggregate, Some(<<IdField>>)),
    NamedType("OBJECT", QueryRoot, Some(<<Field(Authors, List(Named("OBJECT", Authors)))>>)),
    NamedType("SCALAR", Uuid, Null) }

ListTablesInputs ==
  { [sort |-> "endpoint", tool |-> "list_tables", schema |-> s] :
      s \in SchemasOver(ListTablesPool, Some([name |-> QueryRoot]), Null) }

IntName == <<"I","n","t">>
PublicAuthors == <<"p","u","b","l","i","c","_","a","u","t","h","o","r","s">>
AuthorsMixed == <<"a","U","T","H","O","R","S">>
AuthorsCapital == <<"A","u","t","h","o","r","s">>
Tags == <<"t","a","g","s">>

\* the table authors: id: uuid!, name: String!, tags: [String!],
\* articles: [articles!]!, status: status
AuthorsType ==
  NamedType("OBJECT", Authors,
    Some(<< Field(<<"i","d">>, NonNull(Named("SCALAR", Uuid))),
            Field(<<"n","a","m","e">>, NonNull(Named("SCALAR", String))),
            Field(Tags, List(NonNull(Named("SCALAR", String)))),
            Field(Articles, NonNull(List(NonNull(Named("OBJECT", Articles))))),
            Field(Status, Named("ENUM", Status)) >>))

DescribeTablePool ==
  { AuthorsType,
    NamedType("SCALAR", Authors, Null),
    NamedType("OBJECT", AuthorsCapital, Some(<<Field(<<"t","i","t","l","e">>, Named("SCALAR", String))>>)),
    NamedType("OBJECT", <<"A","U","T","H","O","R","S">>, Some(<<Field(<<"u","p","p","e","r">>, Named("SCALAR", IntName))>>)),
    NamedType("OBJECT", PublicAuthors, Some(<<Field(Book, List(Named("OBJECT", Book)))>>)),
    NamedType("OBJECT", <<"_","a","u","t","h","o","r","s">>, Some(<<Field(<<"x">>, NonNull(Named("SCALAR", IntName)))>>)) }

DescribeTableInputs ==
  { [sort |-> "endpoint", tool |-> "describe_table", schema |-> s] :
      s \in SchemasOver(DescribeTablePool, Some([name |-> QueryRoot]), Null) }

DescribeTableNames == {Authors, AuthorsMixed, Missing}
DescribeSchemaNames == {Null, Some(Public), Some(<<>>)}

\* aggregate_data reads no schema
AggregateDataInputs ==
  { [sort |-> "endpoint", tool |-> "aggregate_data", schema |-> HasuraSchema] }

AllAggregateFunctions ==
  { <<"c","o","u","n","t">>, <<"s","u","m">>, <<"a","v","g">>, <<"m","i","n">>, <<"m","a","x">> }

InsertAuthors == Field(<<"i","n","s","e","r","t","_","a","u","t","h","o","r","s">>, Named("OBJECT", Authors))

HealthCheckPool ==
  { NamedType("OBJECT", MutationRoot, Some(<<InsertAuthors>>)),
    NamedType("OBJECT", MutationRoot, Some(<<>>)),
    NamedType("OBJECT", MutationRoot, Null),
    NamedType("OBJECT", CustomMutation, Some(<<InsertAuthors, IdField>>)),
    NamedType("OBJECT", CustomMutation, Some(<<>>)),
    NamedType("OBJECT", Authors, Some(<<IdField>>)) }

HealthCheckInputs ==
  { [sort |-> "endpoint", tool |-> "health_check", schema |-> s] :
      s \in UNION { SchemasOver(HealthCheckPool, Some([name |-> QueryRoot]), m) :
                      m \in {Null, Some([name |-> MutationRoot]),
                             Some([name |-> CustomMutation])} } }

\* the query root: authors: [authors!]!, articles: [articles!]!,
\* uuid: uuid!, book: [book]
PreviewQueryRoot(name) ==
  NamedType("OBJECT", name,
    Some(<< Field(Authors, NonNull(List(NonNull(Named("OBJECT", Authors))))),
            Field(Articles, NonNull(List(NonNull(Named("OBJECT", Articles))))),
            Field(Uuid, NonNull(Named("SCALAR", Uuid))),
            Field(Book, List(Named("OBJECT", Book))) >>))

PreviewPool ==
  { AuthorsType,
    NamedType("OBJECT", Articles, Some(<<Field(<<"a","u","t","h","o","r">>, NonNull(Named("OBJECT", Authors)))>>)),
    NamedType("SCALAR", Uuid, Null),
    NamedType("SCALAR", String, Null),
    FullType("ENUM", Status, Null, Null, Some(<<[name |-> <<"d","r","a","f","t">>, description |-> Null]>>)),
    NamedType("OBJECT", Status, Some(<<IdField>>)) }

\* the query root first, declared by its name or under a name no type has
PreviewInputs ==
  { [sort |-> "endpoint", tool |-> "preview_table_data",
     schema |-> [s EXCEPT !.types = <<PreviewQueryRoot(QueryRoot)>> \o @]] :
      s \in SchemasOver(PreviewPool, Some([name |-> QueryRoot]), Null)
             \cup SchemasOver(PreviewPool, Some([name |-> CustomQuery]), Null)
             \cup SchemasOver(PreviewPool, Null, Null) }

PreviewTableNames == {Authors, Articles, Uuid, Book, Missing}

EndpointInputs ==
  ListTablesInputs \cup DescribeTableInputs \cup AggregateDataInputs
    \cup HealthCheckInputs \cup PreviewInputs

ToolsInit ==
  /\ ServerInit
  /\ arg \in EndpointInputs
  /\ ret = NoRet

\* the tool the run is about is called once
Called(tool) == calls = 0 /\ arg.tool = tool

ToolsNext ==
  \/ Called("list_tables") /\ \E schemaName \in SchemaNames : list_tables(1, schemaName)
  \/ Called("describe_table") /\
       \E tableName \in DescribeTableNames, schemaName \in DescribeSchemaNames :
         describe_table(1, tableName, schemaName)
  \/ Called("aggregate_data") /\
       \E tableName \in {Authors, Missing}, fn \in AllAggregateFunctions,
          field \in AggregateFields, filter \in Filters :
         aggregate_data(1, tableName, fn, field, filter)
  \/ Called("health_check") /\ health_check(1, Null)
  \/ Called("preview_table_data") /\
       \E tableName \in PreviewTableNames, limit \in Limits :
         preview_table_data(1, tableName, limit)
  \/ TypenameOk(1)
  \/ IntrospectionOk(1)
  \/ DataOk(1)
  \/ DataFail(1)

SpecTools == ToolsInit /\ [][ToolsNext]_vars

\* the invocation has returned what its handler computed, nothing thrown
Answered(tool) ==
  /\ inv[1].pc = "done"
  /\ inv[1].tool = tool
  /\ inv[1].thrown = Null

\* code-unit order of two names, read off the characters
RECURSIVE Before(_, _)
Before(a, b) ==
  IF a = <<>> THEN b # <<>>
  ELSE IF b = <<>> THEN FALSE
  ELSE IF a[1] = b[1] THEN Before(Tail(a), Tail(b))
  ELSE CharCode(a[1]) < CharCode(b[1])

\* C13: list_tables returns exactly the names of the types of the schema
\* for which isLikelyTableType holds, each once, in ascending order,
\* whatever schemaName is; authors and articles yield articles, authors.
C13_ListTablesSorted ==
  Answered("list_tables") =>
    LET types == arg.schema.types
        tables == inv[1].result[1].text.value.tables
        expected == {types[i].name : i \in {j \in 1..Len(types) : isLikelyTableType(types[j])}}
    IN  /\ inv[1].result[1].kind = "text"
        /\ inv[1].result[1].text.form = "json"
        /\ {tables[i] : i \in 1..Len(tables)} = expected
        /\ \A i, j \in 1..Len(tables) : i < j => Before(tables[i], tables[j])
        /\ expected = {Authors, Articles} => tables = <<Articles, Authors>>

\* authors precedes articles in the schema and schemaName is given
C13_Witness ==
  /\ Answered("list_tables")
  /\ inv[1].args.schemaName = Some(Public)
  /\ Len(arg.schema.types) = 3
  /\ arg.schema.types[1].name = Authors
  /\ arg.schema.types[2].name = Articles
  /\ arg.schema.types[3].name = AuthorsAggregate
  /\ inv[1].result[1].text.value.tables = <<Articles, Authors>>

(***************************************************************************)
(* describe_table (checked under SpecTools).                               *)
(***************************************************************************)
Least(S) == CHOOSE x \in S : \A y \in S : x <= y

\* the positions in the schema of the types named name
NamedAt(types, name) == {i \in 1..Len(types) : types[i].name = name}

\* the names equal up to the case of their letters
SameIgnoringCase(a, b) ==
  /\ Len(a) = Len(b)
  /\ \A i \in 1..Len(a) :
       \/ a[i] = b[i]
       \/ \E k \in 1..Len(AlphaLower) :
            {a[i], b[i]} = {AlphaLower[k], AlphaUpper[k]}

\* the position of the type the order of C14 resolves to, 0 when none; a
\* schemaName counts as given when it is a non-empty string
ResolvedAt(types, tableName, schemaName) ==
  LET qualified == IF schemaName # Null /\ schemaName[1] # <<>>
                     THEN NamedAt(types, schemaName[1] \o <<"_">> \o tableName)
                     ELSE {}
      insensitive == {i \in 1..Len(types) : SameIgnoringCase(types[i].name, tableName)}
  IN  IF NamedAt(types, tableName) # {} THEN Least(NamedAt(types, tableName))
      ELSE IF qualified # {} THEN Least(qualified)
      ELSE IF insensitive # {} THEN Least(insensitive)
      ELSE 0

DescribedAt == ResolvedAt(arg.schema.types, inv[1].args.tableName, inv[1].args.schemaName)

TableNotFound == TextResult(Plain("Table not found: ", inv[1].args.tableName))

\* C14: describe_table describes the first hit of: the type named
\* tableName; with a (non-empty) schemaName, the type named
\* schemaName_tableName; the first type in schema order named tableName up
\* to case.  No hit, or a hit that has no fields, gives 'Table not found:
\* <tableName>'.
C14_ResolutionOrder ==
  Answered("describe_table") =>
    LET types == arg.schema.types
        at == DescribedAt
    IN  IF at = 0 \/ types[at].fields = Null
          THEN inv[1].result[1] = TableNotFound
          ELSE LET fs == types[at].fields[1]
                   value == inv[1].result[1].text.value
               IN  /\ inv[1].result[1].text.form = "json"
                   /\ value.tableName = inv[1].args.tableName
                   /\ Len(value.fields) = Len(fs)
                   /\ \A i \in 1..Len(fs) : value.fields[i].name = fs[i].name

\* aUTHORS in schema public: neither aUTHORS nor public_aUTHORS is a type,
\* and of Authors (second) and AUTHORS (third) the first is described
C14_Witness ==
  /\ Answered("describe_table")
  /\ inv[1].args.tableName = AuthorsMixed
  /\ inv[1].args.schemaName = Some(Public)
  /\ Len(arg.schema.types) = 3
  /\ arg.schema.types[1].name = PublicAuthors
  /\ arg.schema.types[2].name = AuthorsCapital
  /\ arg.schema.types[3].name = <<"A","U","T","H","O","R","S">>
  /\ inv[1].result[1].text.form = "json"
  /\ inv[1].result[1].text.value.fields[1].name = <<"t","i","t","l","e">>

\* the fields of the type describe_table has described, and its descriptors
DescribedFields == arg.schema.types[DescribedAt].fields[1]
Descriptors == inv[1].result[1].text.value.fields

Described ==
  /\ Answered("describe_table")
  /\ inv[1].result[1].text.form = "json"

\* C15: one descriptor {name, description, type, isList, isNullable} for
\* each field of the resolved type, in the type's field order; a field
\* whose type is a non-null named type has isNullable = FALSE and its type
\* is rendered as the name followed by '!'.
C15_OneDescriptorPerField ==
  Described =>
    /\ Len(Descriptors) = Len(DescribedFields)
    /\ \A i \in 1..Len(DescribedFields) :
         LET field == DescribedFields[i]
             d == Descriptors[i]
         IN  /\ DOMAIN d = {"name", "description", "type", "isList", "isNullable"}
             /\ d.name = field.name
             /\ d.description = field.description
             /\ d.isList \in BOOLEAN
             /\ d.isNullable \in BOOLEAN
             /\ (field.type.kind = "NON_NULL"
                   /\ field.type.ofType[1].kind \notin {"NON_NULL", "LIST"}) =>
                  /\ d.isNullable = FALSE
                  /\ d.isList = FALSE
                  /\ d.type = field.type.ofType[1].name[1] \o <<"!">>

\* authors is described: id is uuid!, name is String!, both not nullable
C15_Witness ==
  /\ Described
  /\ arg.schema.types[DescribedAt] = AuthorsType
  /\ Len(Descriptors) = 5
  /\ Descriptors[1].name = <<"i","d">>
  /\ Descriptors[1].type = <<"u","u","i","d","!">>
  /\ ~Descriptors[1].isNullable
  /\ Descriptors[2].type = <<"S","t","r","i","n","g","!">>
  /\ ~Descriptors[2].isNullable

\* the last character of a rendered type
EndsInBang(s) == s # <<>> /\ s[Len(s)] = "!"

\* C20: isNullable is TRUE exactly when the field's outermost type
\* reference is not NON_NULL, that is exactly when the rendered type does
\* not end in '!'; tags: [String!] is nullable.
C20_NullableIffOutermost ==
  Described =>
    \A i \in 1..Len(DescribedFields) :
      /\ Descriptors[i].isNullable = (DescribedFields[i].type.kind # "NON_NULL")
      /\ Descriptors[i].isNullable = ~EndsInBang(Descriptors[i].type)

(***************************************************************************)
(* aggregate_data (checked under SpecTools).                               *)
(***************************************************************************)
FieldRequired == TextResult(Plain("Field is required for this aggregation.", <<>>))

\* C16: sum, avg, min and max need a field: without one, or with an empty
\* one, aggregate_data answers 'Field is required for this aggregation.'
\* and sends nothing; count is sent with or without a field, and so is
\* every function that has its field.
C16_FieldRequiredUnlessCount ==
  (inv[1].pc # "idle" /\ inv[1].tool = "aggregate_data") =>
    LET fn == inv[1].args.aggregateFunction
        field == inv[1].args.field
        absent == field = Null \/ field[1] = <<>>
    IN  IF fn \in {<<"s","u","m">>, <<"a","v","g">>, <<"m","i","n">>, <<"m","a","x">>} /\ absent
          THEN /\ inv[1].pc = "done"
               /\ inv[1].result = Some(FieldRequired)
               /\ inv[1].sent = <<>>
          ELSE /\ Len(inv[1].sent) = 1
               /\ inv[1].sent[1].to = "graphql"
               /\ inv[1].result # Some(FieldRequired)
               /\ fn = <<"c","o","u","n","t">> =>
                    endsWith(inv[1].sent[1].query, <<"{"," ","a","g","g","r","e","g","a","t","e"," ","{"," ","c","o","u","n","t"," ","}"," ","}"," ","}">>)

\* avg with an empty field is refused and nothing is sent
C16_Witness ==
  /\ inv[1].pc = "done"
  /\ inv[1].tool = "aggregate_data"
  /\ inv[1].args.aggregateFunction = <<"a","v","g">>
  /\ inv[1].args.field = Some(<<>>)
  /\ inv[1].result = Some(FieldRequired)
  /\ inv[1].sent = <<>>

(***************************************************************************)
(* health_check without a URL (checked under SpecTools).                   *)
(***************************************************************************)
\* the schema's mutation root has at least one field
MutationRootHasFields(schema) ==
  LET rootName == IF schema.mutationType # Null THEN schema.mutationType[1].name
                  ELSE <<"m","u","t","a","t","i","o","n","_","r","o","o","t">>
      at == NamedAt(schema.types, rootName)
  IN  /\ at # {}
      /\ schema.types[Least(at)].fields # Null
      /\ Len(schema.types[Least(at)].fields[1]) >= 1

\* C17: health_check without a URL reports hasMutationFields exactly when
\* the mutation root type (the declared name, else mutation_root) is in
\* the schema and has a field; warnings holds the one write-access warning
\* exactly then and is empty otherwise.
C17_MutationFieldsReported ==
  Answered("health_check") =>
    LET value == inv[1].result[1].text.value
        expected == MutationRootHasFields(arg.schema)
    IN  /\ inv[1].result[1].text.form = "json"
        /\ value.hasMutationFields = expected
        /\ expected => value.warnings = <<WriteAccessWarning>>
        /\ ~expected => value.warnings = <<>>

\* the declared root custom_mutation has fields, after an empty
\* mutation_root in the same schema: the warning is given
C17_Witness ==
  /\ Answered("health_check")
  /\ arg.schema.mutationType = Some([name |-> CustomMutation])
  /\ Len(arg.schema.types) = 2
  /\ arg.schema.types[1] = NamedType("OBJECT", MutationRoot, Some(<<>>))
  /\ arg.schema.types[2].name = CustomMutation
  /\ inv[1].result[1].text.value.hasMutationFields
  /\ inv[1].result[1].text.value.warnings = <<WriteAccessWarning>>
  /\ Len(inv[1].sent) = 2

(***************************************************************************)
(* preview_table_data (checked under SpecTools).                           *)
(***************************************************************************)
\* the named type at the end of a chain of wrappers
RECURSIVE Innermost(_)
Innermost(type) == IF type.ofType = Null THEN type ELSE Innermost(type.ofType[1])

\* the named type is SCALAR or ENUM in the schema
ScalarOrEnumIn(types, type) ==
  /\ Innermost(type).name # Null
  /\ \E i \in NamedAt(types, Innermost(type).name[1]) :
       /\ i = Least(NamedAt(types, Innermost(type).name[1]))
       /\ types[i].kind \in {"SCALAR", "ENUM"}

\* names separated by one space
RECURSIVE Spaced(_)
Spaced(names) ==
  IF Len(names) = 0 THEN <<>>
  ELSE IF Len(names) = 1 THEN names[1]
  ELSE Spaced(SubSeq(names, 1, Len(names) - 1)) \o <<" ">> \o names[Len(names)]

\* the names at the positions of a set, in order
RECURSIVE NamesAt(_, _)
NamesAt(fields, at) ==
  IF at = {} THEN <<>>
  ELSE <<fields[Least(at)].name>> \o NamesAt(fields, at \ {Least(at)})

\* the data requests the invocation has sent
DataRequests ==
  {i \in 1..Len(inv[1].sent) : ~IsIntrospection(inv[1].sent[i])}

PreviewRefused(label) ==
  /\ inv[1].pc = "done"
  /\ inv[1].result = Some(TextResult(Plain(label, inv[1].args.tableName)))
  /\ DataRequests = {}

\* C19: the data request of preview_table_data selects only (and all the)
\* fields of the resolved table type whose innermost named type is SCALAR
\* or ENUM in the schema, with the limit given or 5; a root field that is
\* not found, a table type that cannot be resolved and a table type without
\* such a field each give their message and no data request.
C19_PreviewSelectsScalars ==
  (inv[1].pc \in {"awaitData", "done"} /\ inv[1].tool = "preview_table_data") =>
    LET types == arg.schema.types
        tableName == inv[1].args.tableName
        rootName == IF arg.schema.queryType # Null THEN arg.schema.queryType[1].name
                    ELSE <<"q","u","e","r","y","_","r","o","o","t">>
        rootAt == NamedAt(types, rootName)
        rootFields == IF rootAt = {} \/ types[Least(rootAt)].fields = Null THEN <<>>
                      ELSE types[Least(rootAt)].fields[1]
        fieldAt == {i \in 1..Len(rootFields) : rootFields[i].name = tableName}
        tableAt == IF fieldAt = {} THEN {}
                   ELSE NamedAt(types, Innermost(rootFields[Least(fieldAt)].type).name[1])
        tableFields == IF tableAt = {} \/ types[Least(tableAt)].fields = Null THEN Null
                       ELSE types[Least(tableAt)].fields
        selectable == IF tableFields = Null THEN {}
                      ELSE {i \in 1..Len(tableFields[1]) :
                              ScalarOrEnumIn(types, tableFields[1][i].type)}
    IN  IF fieldAt = {} THEN PreviewRefused("Query root field not found: ")
        ELSE IF tableFields = Null THEN PreviewRefused("Cannot resolve object type for ")
        ELSE IF selectable = {} THEN PreviewRefused("No scalar fields found for ")
        ELSE /\ Cardinality(DataRequests) = 1
             /\ \A i \in DataRequests :
                  /\ inv[1].sent[i].query =
                       <<"q","u","e","r","y"," ","P","r","e","v","i","e","w","T","a","b","l","e","(","$","l","i","m","i","t",":"," ","I","n","t",")"," ","{"," ">> \o tableName
                         \o <<"(","l","i","m","i","t",":"," ","$","l","i","m","i","t",")"," ","{"," ">>
                         \o Spaced(NamesAt(tableFields[1], selectable)) \o <<" ","}"," ","}">>
                  /\ inv[1].sent[i].variables =
                       Some({<<"limit", IF inv[1].args.limit # Null
                                          THEN inv[1].args.limit[1] ELSE 5>>})

\* authors with String and the enum status in the schema and no limit:
\* name, tags and status are selected, id (uuid is not in the schema) and
\* articles are not, and the limit is 5
C19_Witness ==
  /\ inv[1].pc = "awaitData"
  /\ inv[1].tool = "preview_table_data"
  /\ inv[1].args.tableName = Authors
  /\ inv[1].args.limit = Null
  /\ inv[1].sent[2].query =
       <<"q","u","e","r","y"," ","P","r","e","v","i","e","w","T","a","b","l","e","(","$","l","i","m","i","t",":"," ","I","n","t",")"," ","{"," ","a","u","t","h","o","r","s","(","l","i","m","i","t",":"," ","$","l","i","m","i","t",")"," ","{"," ","n","a","m","e"," ","t","a","g","s"," ","s","t","a","t","u","s"," ","}"," ","}">>
  /\ inv[1].sent[2].variables = Some({<<"limit", 5>>})

(***************************************************************************)
(* The command line (cli.ts with --endpoint and --secret).                 *)
(***************************************************************************)
MaxArgs == 3     \* command-line arguments after the script name

\* parseArgs: the loop from index i on, args being the Map so far
RECURSIVE parseArgsFrom(_, _, _)
parseArgsFrom(argv, i, args) ==
  IF i > Len(argv) THEN args
  ELSE IF argv[i] = "--endpoint" /\ i + 1 <= Len(argv) /\ argv[i + 1] # ""
    THEN parseArgsFrom(argv, i + 2, [args EXCEPT !.endpoint = Some(argv[i + 1])])
  ELSE IF argv[i] = "--secret" /\ i + 1 <= Len(argv) /\ argv[i + 1] # ""
    THEN parseArgsFrom(argv, i + 2, [args EXCEPT !.secret = Some(argv[i + 1])])
  ELSE parseArgsFrom(argv, i + 1, args)

parseArgs(argv) == parseArgsFrom(argv, 1, [endpoint |-> Null, secret |-> Null])

\* argv[k] of a JavaScript array: undefined past the end
At(argv, k) == IF k <= Len(argv) THEN Some(argv[k]) ELSE Null

\* a ?? b ?? c
Coalesce(a, b, c) == IF a # Null THEN a ELSE IF b # Null THEN b ELSE c

endpoint(argv, env) ==
  Coalesce(parseArgs(argv).endpoint, At(argv, 1), env.HASURA_GRAPHQL_ENDPOINT)

secret(argv, env) ==
  Coalesce(parseArgs(argv).secret, At(argv, 2), env.HASURA_GRAPHQL_SECRET)

\* !value: undefined or the empty string
Falsy(value) == value = Null \/ value[1] = ""

\* the module body of cli.ts: exit code 1, or startServer is called
cli(argv, env) ==
  [fn |-> "cli",
   endpoint |-> endpoint(argv, env),
   secret |-> secret(argv, env),
   outcome |-> IF Falsy(endpoint(argv, env)) \/ Falsy(secret(argv, env))
                 THEN "exit 1" ELSE "startServer"]

Tokens == {"--endpoint", "--secret", "http://hasura/v1/graphql", "s3cret", ""}

RECURSIVE ArgLists(_)
ArgLists(n) ==
  IF n = 0 THEN {<<>>}
  ELSE LET shorter == ArgLists(n - 1)
       IN  shorter \cup {Append(l, t) : l \in {x \in shorter : Len(x) = n - 1}, t \in Tokens}

Environments ==
  { [HASURA_GRAPHQL_ENDPOINT |-> e, HASURA_GRAPHQL_SECRET |-> s] :
      e \in {Null, Some(""), Some("http://env/v1/graphql")},
      s \in {Null, Some(""), Some("env-secret")} }

CliInputs ==
  { [sort |-> "cli", argv |-> a, env |-> e] : a \in ArgLists(MaxArgs), e \in Environments }

CliInit ==
  /\ ServerInit
  /\ arg \in CliInputs
  /\ ret = NoRet

RunCli ==
  /\ ret = NoRet
  /\ ret' = cli(arg.argv, arg.env)
  /\ UNCHANGED <<arg, serverVars>>

CliNext == RunCli

SpecCli == CliInit /\ [][CliNext]_vars

\* the role of each argument: a flag token, the value that follows a flag,
\* or a positional argument
RECURSIVE Roles(_)
Roles(argv) ==
  IF argv = <<>> THEN <<>>
  ELSE IF argv[1] \in {"--endpoint", "--secret"}
    THEN (IF Len(argv) >= 2 /\ argv[2] # ""
            THEN <<argv[1], "value">> \o Roles(SubSeq(argv, 3, Len(argv)))
            ELSE <<argv[1]>> \o Roles(Tail(argv)))
  ELSE <<"positional">> \o Roles(Tail(argv))

\* the values that follow the flag, and the positional arguments in order
ValuesOf(argv, flag) ==
  {argv[i] : i \in {j \in 2..Len(argv) : Roles(argv)[j] = "value" /\ argv[j - 1] = flag
                                          /\ Roles(argv)[j - 1] = flag}}

RECURSIVE PositionalsFrom(_, _)
PositionalsFrom(argv, i) ==
  IF i > Len(argv) THEN <<>>
  ELSE IF Roles(argv)[i] = "positional" THEN <<argv[i]>> \o PositionalsFrom(argv, i + 1)
  ELSE PositionalsFrom(argv, i + 1)

\* the flag's value if given, else the k-th positional argument, else the
\* environment variable
Resolves(value, argv, flag, k, variable) ==
  IF ValuesOf(argv, flag) # {} THEN value # Null /\ value[1] \in ValuesOf(argv, flag)
  ELSE IF Len(PositionalsFrom(argv, 1)) >= k THEN value = Some(PositionalsFrom(argv, 1)[k])
  ELSE value = variable

\* C21: the endpoint is the value after --endpoint, else the first
\* positional argument, else HASURA_GRAPHQL_ENDPOINT; the secret is the
\* value after --secret, else the second positional argument, else
\* HASURA_GRAPHQL_SECRET; no flag token and no flag's value is taken as a
\* positional argument; startServer is called exactly when both are
\* non-empty, and the process exits with code 1 otherwise.
C21_CliResolution ==
  ret.fn = "cli" =>
    /\ Resolves(ret.endpoint, arg.argv, "--endpoint", 1, arg.env.HASURA_GRAPHQL_ENDPOINT)
    /\ Resolves(ret.secret, arg.argv, "--secret", 2, arg.env.HASURA_GRAPHQL_SECRET)
    /\ (ret.outcome = "startServer") =
         (ret.endpoint # Null /\ ret.endpoint[1] # "" /\ ret.secret # Null /\ ret.secret[1] # "")
    /\ ret.outcome \in {"startServer", "exit 1"}

=============================================================================
